---------------------------- MODULE Spec2Model ----------------------------
(***************************************************************************)
(* Billing engine of the student-management application: the payment       *)
(* ledger, the due-date calculator, the status classifier, the batch       *)
(* recomputers, the payment settings and the attendance scanner lock,      *)
(* modelled from the services under src-tauri/src.                         *)
(*                                                                         *)
(* Dates are stored by the program as TEXT.  A text is modelled as the     *)
(* sequence of its ASCII codes, so that parsing (chrono, "%Y-%m-%d"),      *)
(* formatting and SQLite's text comparison are computed, not assumed.      *)
(***************************************************************************)
EXTENDS Integers, Sequences, FiniteSets, TLC

-----------------------------------------------------------------------------
(* Program constants *)

\* payment_service.rs:9
MAX_PAYMENT_AMOUNT == 1000000
\* payment_service.rs:12
DEFAULT_INSTALLMENT_COUNT == 3
\* student_service.rs:241
MAX_PLAN_AMOUNT == 1000000
\* student_service.rs:251
MAX_INSTALLMENT_COUNT == 12
\* payment_service.rs: DAYS_PER_MONTH = 30.44, in hundredths of a day
DAYS_PER_MONTH_HUNDREDTHS == 3044

-----------------------------------------------------------------------------
(* Rust values *)

\* Option<T>: None is the empty sequence, Some(x) the one-element sequence
None == << >>
Some(x) == << x >>
IsSome(o) == o # << >>
Unwrap(o) == o[1]

\* Result<T, E>: test .ok before reading .val (Ok) or .err (Err)
Ok(v) == [ok |-> TRUE, val |-> v]
Err(e) == [ok |-> FALSE, err |-> e]

\* the values an operation hands back to its caller, by their Rust type
I32(n) == [i32 |-> n]
Bool(b) == [bool |-> b]

\* `let v = e;`: Body sees the value of e under one name
Bind(v, Body(_)) == Body(v)

\* `let v = r?;`: an Err ends the function with that Err, an Ok hands its
\* value to the rest of the function
Try(r, Rest(_)) == IF r.ok THEN Rest(r.val) ELSE r

\* the errors of the payment service (PaymentError) and, as "DatabaseError",
\* those of the storage layer (DatabaseError) with their message
ValidationError(msg) == [kind |-> "ValidationError", detail |-> msg]
\* an absent student folded into the validation errors
StudentNotFoundAsValidation == ValidationError("Student not found")
StudentNotFound == [kind |-> "StudentNotFound", detail |-> ""]
DatabaseError(msg) == [kind |-> "DatabaseError", detail |-> msg]

-----------------------------------------------------------------------------
(* Texts: sequences of ASCII codes *)

\* '0'..'9' are 48..57, '-' is 45
IsDigit(c) == c >= 48 /\ c <= 57

\* the two decimal digits of n (0..99), zero padded
Pad2(n) == << 48 + (n \div 10), 48 + (n % 10) >>

\* the four decimal digits of n (0..9999), zero padded
Pad4(n) == << 48 + (n \div 1000), 48 + ((n \div 100) % 10),
              48 + ((n \div 10) % 10), 48 + (n % 10) >>

\* the decimal digits of n (1..99) without padding
Unpadded(n) == IF n < 10 THEN << 48 + n >> ELSE Pad2(n)

\* SQLite's BINARY collation on TEXT (memcmp, then the shorter text first):
\* a and b agree before some position i of b, where a has ended or holds a
\* smaller byte
TextLess(a, b) ==
    \E i \in 1..Len(b) :
        /\ \A k \in 1..(i - 1) : k <= Len(a) /\ a[k] = b[k]
        /\ (i = Len(a) + 1 \/ (i <= Len(a) /\ a[i] < b[i]))

TextLeq(a, b) == a = b \/ TextLess(a, b)

-----------------------------------------------------------------------------
(* Calendar (chrono::NaiveDate, proleptic Gregorian) *)

IsLeap(y) == (y % 4 = 0 /\ y % 100 # 0) \/ y % 400 = 0

DaysInMonth(y, m) ==
    IF m = 2 THEN (IF IsLeap(y) THEN 29 ELSE 28)
    ELSE IF m \in {4, 6, 9, 11} THEN 30 ELSE 31

ValidYMD(y, m, d) == m >= 1 /\ m <= 12 /\ d >= 1 /\ d <= DaysInMonth(y, m)

\* a NaiveDate value
Date(y, m, d) == [y |-> y, m |-> m, d |-> d]

\* NaiveDate::from_ymd_opt
FromYmdOpt(y, m, d) == IF ValidYMD(y, m, d) THEN Some(Date(y, m, d)) ELSE None

\* days since 1970-01-01 (days-from-civil), for years from 1 on
DayNumber(dt) ==
    Bind(IF dt.m <= 2 THEN dt.y - 1 ELSE dt.y, LAMBDA y2 :
    Bind((153 * ((dt.m + 9) % 12) + 2) \div 5 + dt.d - 1, LAMBDA doy :
    Bind(y2 % 400, LAMBDA yoe :
        (y2 \div 400) * 146097
        + (yoe * 365 + yoe \div 4 - yoe \div 100 + doy) - 719468)))

\* the NaiveDate of a day number (civil-from-days), for days from 1970 on
DateOfDay(n) ==
    Bind((n + 719468) \div 146097, LAMBDA era :
    Bind((n + 719468) % 146097, LAMBDA doe :
    Bind((doe - doe \div 1460 + doe \div 36524 - doe \div 146096) \div 365,
         LAMBDA yoe :
    Bind(doe - (365 * yoe + yoe \div 4 - yoe \div 100), LAMBDA doy :
    Bind((5 * doy + 2) \div 153, LAMBDA mp :
        Date(yoe + era * 400 + (IF mp >= 10 THEN 1 ELSE 0),
             IF mp < 10 THEN mp + 3 ELSE mp - 9,
             doy - (153 * mp + 2) \div 5 + 1))))))

\* (a - b).num_days()
NumDays(a, b) == DayNumber(a) - DayNumber(b)

\* NaiveDate::with_month: None when the day does not exist in that month
WithMonth(dt, m) == FromYmdOpt(dt.y, m, dt.d)

\* NaiveDate::with_year: None when the day does not exist in that year (Feb 29)
WithYear(dt, y) == FromYmdOpt(y, dt.m, dt.d)

\* NaiveDate::format("%Y-%m-%d").to_string()
FormatDate(dt) == Pad4(dt.y) \o << 45 >> \o Pad2(dt.m) \o << 45 >> \o Pad2(dt.d)

\* a numeric item of the format: 1..width digits and nothing else
IsNumber(f, width) ==
    Len(f) >= 1 /\ Len(f) <= width /\ \A i \in 1..Len(f) : IsDigit(f[i])

\* the value of a run of decimal digits
RECURSIVE DigitsValue(_)
DigitsValue(f) ==
    IF f = << >> THEN 0
    ELSE 10 * DigitsValue(SubSeq(f, 1, Len(f) - 1)) + (f[Len(f)] - 48)

\* the items year, month and day once the text is cut at its dashes
ParseItems(year, month, day) ==
    IF IsNumber(year, 4) /\ IsNumber(month, 2) /\ IsNumber(day, 2)
    THEN FromYmdOpt(DigitsValue(year), DigitsValue(month), DigitsValue(day))
    ELSE None

\* NaiveDate::parse_from_str(s, "%Y-%m-%d") for texts without sign or blanks:
\* each numeric item takes 1..width digits (width 4, 2, 2) and need not be
\* zero padded, the literals are dashes, nothing may follow the day, and the
\* date must exist.  Some(NaiveDate), or None for Err(ParseError).
parse_from_str(s) ==
    Bind({ i \in 1..Len(s) : s[i] = 45 }, LAMBDA dashes :
        IF Cardinality(dashes) # 2 THEN None
        ELSE Bind(CHOOSE i \in dashes : \A j \in dashes : i <= j, LAMBDA first :
             Bind(CHOOSE j \in dashes : j # first, LAMBDA second :
                 ParseItems(SubSeq(s, 1, first - 1),
                            SubSeq(s, first + 1, second - 1),
                            SubSeq(s, second + 1, Len(s))))))

-----------------------------------------------------------------------------
(* Bounds of the model and the inputs offered to the operations *)

\* students that may exist at once
MaxStudents == 1
\* payment rows ever inserted (AUTOINCREMENT ids 1..MaxPayments)
MaxPayments == 2
\* times the clock is advanced
MaxTicks == 1
\* threads of the command runtime that issue commands at the same time
MaxCallers == 2

\* the day the application is first used: 2024-01-15
StartDay == DayNumber(Date(2024, 1, 15))
\* days that pass between two uses of the application: up to 2024-02-15
DayStep == DayNumber(Date(2024, 2, 15)) - DayNumber(Date(2024, 1, 15))

\* payment_date texts offered to record_payment.  PaddedDateTexts is
\* "2024-01-15"; UnpaddedDateTexts is "2024-1-5", the fifth of January written
\* without zero padding; InvalidDateTexts are "15-01-2024" and "2024-13-01"
\* (payment_service.rs, test_validate_payment_data).
PaddedDateTexts == { FormatDate(Date(2024, 1, 15)) }
UnpaddedDateTexts ==
    { Pad4(2024) \o << 45 >> \o Unpadded(1) \o << 45 >> \o Unpadded(5) }
InvalidDateTexts ==
    { Pad2(15) \o << 45 >> \o Pad2(1) \o << 45 >> \o Pad4(2024),
      FormatDate(Date(2024, 13, 1)) }
DateTexts == PaddedDateTexts \cup UnpaddedDateTexts \cup InvalidDateTexts

\* amounts offered to record_payment
ValidAmounts == {1, MAX_PAYMENT_AMOUNT}
InvalidAmounts == {0, MAX_PAYMENT_AMOUNT + 1}

\* A student id text is modelled by a number: 0 is the empty text "",
\* n > 0 is "STU" followed by n in six digits (generate_student_id).
\* MaxStudents + 1 is the id of a student that never exists.
\* RecordPaymentRequest (payment_method and notes do not reach the ledger
\* arithmetic and are left out)
RecordPaymentRequest(student_id, amount, payment_date) ==
    [student_id |-> student_id, amount |-> amount, payment_date |-> payment_date]

\* the requests offered to record_payment: those whose fields the validation
\* accepts, for existing and for unknown students, and those it rejects for
\* one field
AcceptedRequests ==
    [student_id : 1..(MaxStudents + 1), amount : ValidAmounts,
     payment_date : PaddedDateTexts \cup UnpaddedDateTexts]
RejectedRequests ==
    { RecordPaymentRequest(0, 1, FormatDate(Date(2024, 1, 15))) }
    \cup { RecordPaymentRequest(1, a, FormatDate(Date(2024, 1, 15))) :
             a \in InvalidAmounts }
    \cup { RecordPaymentRequest(1, 1, t) : t \in InvalidDateTexts }
RecordPaymentRequests == AcceptedRequests \cup RejectedRequests

\* Where a storage error (rusqlite::Error) is injected into record_payment and
\* delete_payment: at the first or the second write of the transaction, at
\* its commit, in the recompute that follows, or in the audit write.
\* Storage errors are offered with the requests for students that may exist.
RecordFaults == {"none", "insert", "update", "commit", "recompute", "audit"}
DeleteFaults == {"none", "delete", "update", "commit", "recompute", "audit"}
FaultsOf(request) ==
    IF request \in AcceptedRequests /\ request.student_id <= MaxStudents
    THEN RecordFaults ELSE {"none"}

\* CreateStudentRequest / UpdateStudentRequest (name, group_name valid)
StudentRequests ==
    { [payment_plan |-> "one-time",    plan_amount |-> 2, installment_count |-> None],
      [payment_plan |-> "monthly",     plan_amount |-> 2, installment_count |-> None],
      [payment_plan |-> "installment", plan_amount |-> 2, installment_count |-> Some(2)],
      [payment_plan |-> "installment", plan_amount |-> 2, installment_count |-> None] }

\* the row of table payment_settings inserted by the schema migration (the
\* amounts and the threshold of the row do not reach the recompute)
DefaultPaymentSettings == [installment_interval_months |-> 3, reminder_days |-> 7]
\* UpdatePaymentSettingsRequest values: two that the validation accepts, one
\* with an interval of 0 months and one with 366 reminder days
PaymentSettingsRequests ==
    { [installment_interval_months |-> 1,  reminder_days |-> 0],
      [installment_interval_months |-> 12, reminder_days |-> 7],
      [installment_interval_months |-> 0,  reminder_days |-> 7],
      [installment_interval_months |-> 3,  reminder_days |-> 366] }

\* PaymentPlanConfig values written by update_payment_plan_config
\* (the amounts of the config do not reach the recompute)
DefaultConfig == [installment_interval |-> 3, reminder_days |-> 7]
Configs == { DefaultConfig, [installment_interval |-> 1, reminder_days |-> 0] }

-----------------------------------------------------------------------------
(* The parse of a date text *)

\* payment dates met by the due-date calculator: the middle of a month, the
\* middle of December, the last day of January and the last day of November
LastPaymentDates ==
    { Date(2024, 1, 15), Date(2024, 12, 15), Date(2024, 1, 31), Date(2024, 11, 30) }

\* the texts the model meets: those offered as input and the formatted days
\* from a month before the first use to some months after the last
MetTexts ==
    DateTexts \cup { FormatDate(dt) : dt \in LastPaymentDates } \cup { FormatDate(DateOfDay(n)) :
                       n \in (StartDay - DayStep)..(StartDay + (MaxTicks + 5) * DayStep) }

\* parse_from_str of every met text, computed once
ParsedTexts == [s \in MetTexts |-> parse_from_str(s)]

\* NaiveDate::parse_from_str(s, "%Y-%m-%d"), looked up where already computed
ParseDate(s) == IF s \in MetTexts THEN ParsedTexts[s] ELSE parse_from_str(s)

-----------------------------------------------------------------------------
(* PaymentPlan and PaymentStatus, by their stored tokens *)

PaymentPlan == {"one-time", "monthly", "installment"}
PaymentStatus == {"paid", "pending", "overdue", "due_soon"}

-----------------------------------------------------------------------------
(* The pure calculators (StudentService) *)

\* "add one month" of the Monthly branch
MonthlyAdvance(ref) ==
    Bind(WithMonth(ref, (ref.m % 12) + 1), LAMBDA direct :
        IF IsSome(direct) THEN Unwrap(direct)
        ELSE Bind(WithYear(ref, ref.y + 1), LAMBDA bumped :
             Bind(IF IsSome(bumped) THEN WithMonth(Unwrap(bumped), 1) ELSE None,
                  LAMBDA jan : IF IsSome(jan) THEN Unwrap(jan) ELSE ref)))

\* "add installment interval months" of the Installment branch
InstallmentAdvance(ref, installment_interval) ==
    Bind(WithYear(ref, ref.y + ((ref.m - 1 + installment_interval) \div 12)),
         LAMBDA bumped :
    Bind(IF IsSome(bumped)
         THEN WithMonth(Unwrap(bumped), ((ref.m - 1 + installment_interval) % 12) + 1)
         ELSE None,
         LAMBDA moved : IF IsSome(moved) THEN Unwrap(moved) ELSE ref))

\* a one-time plan whose due date follows the last payment
OneTimeDueDateFromReference(enrollment, reference_date) == reference_date
\* the OneTime arm: "Due immediately upon enrollment"
OneTimeDueDate(enrollment, reference_date) == enrollment

\* StudentService::calculate_next_due_date: Ok(Some(text)) or Err(DatabaseError)
calculate_next_due_date(payment_plan, enrollment_date, last_payment_date, installment_interval) ==
    Bind(ParseDate(enrollment_date), LAMBDA enrollment :
    Bind(IF IsSome(last_payment_date)
         THEN ParseDate(Unwrap(last_payment_date)) ELSE None, LAMBDA last :
        IF ~IsSome(enrollment) THEN Err(DatabaseError("Invalid enrollment date format"))
        ELSE IF IsSome(last_payment_date) /\ ~IsSome(last)
        THEN Err(DatabaseError("Invalid last payment date format"))
        ELSE CASE payment_plan = "one-time" ->
                    Ok(Some(FormatDate(
                        OneTimeDueDate(Unwrap(enrollment),
                                       IF IsSome(last) THEN Unwrap(last)
                                       ELSE Unwrap(enrollment)))))
               [] payment_plan = "monthly" ->
                    Ok(Some(FormatDate(
                        IF IsSome(last) THEN MonthlyAdvance(Unwrap(last))
                        ELSE Unwrap(enrollment))))
               [] payment_plan = "installment" ->
                    Ok(Some(FormatDate(
                        IF IsSome(last)
                        THEN InstallmentAdvance(Unwrap(last), installment_interval)
                        ELSE Unwrap(enrollment))))))

\* a reminder window that leaves out its last day
WithinReminderExclusive(days_until_due, reminder_days) == days_until_due < reminder_days
\* `days_until_due <= reminder_days as i64`
WithinReminder(days_until_due, reminder_days) == days_until_due <= reminder_days

\* the date branch shared by the Monthly and Installment arms
DueDateStatus(next_due_date, reminder_days, today) ==
    IF ~IsSome(next_due_date) THEN Ok("pending")
    ELSE Bind(ParseDate(Unwrap(next_due_date)), LAMBDA due_date :
            IF ~IsSome(due_date) THEN Err(DatabaseError("Invalid due date format"))
            ELSE Bind(NumDays(Unwrap(due_date), DateOfDay(today)),
                      LAMBDA days_until_due :
                        IF days_until_due < 0 THEN Ok("overdue")
                        ELSE IF WithinReminder(days_until_due, reminder_days)
                             THEN Ok("due_soon")
                        ELSE Ok("pending")))

\* a one-time plan that is overdue on the thirtieth day already
OneTimeOverdueFromThirty(days_since_enrollment) == days_since_enrollment >= 30
\* `if days_since_enrollment > 30` of the OneTime arm
OneTimeOverdue(days_since_enrollment) == days_since_enrollment > 30

\* StudentService::calculate_payment_status; today is Utc::now().date_naive()
\* as a day number
calculate_payment_status(payment_plan, plan_amount, paid_amount, installment_count, next_due_date, enrollment_date, reminder_days, today) ==
    CASE payment_plan = "one-time" ->
            IF paid_amount >= plan_amount THEN Ok("paid")
            ELSE Bind(ParseDate(enrollment_date), LAMBDA enrollment :
                    IF ~IsSome(enrollment) THEN Err(DatabaseError("Invalid enrollment date format"))
                    ELSE IF OneTimeOverdue(NumDays(DateOfDay(today), Unwrap(enrollment)))
                         THEN Ok("overdue")
                         ELSE Ok("pending"))
      [] payment_plan = "monthly" ->
            DueDateStatus(next_due_date, reminder_days, today)
      [] payment_plan = "installment" ->
            IF paid_amount >= plan_amount * (IF IsSome(installment_count)
                                             THEN Unwrap(installment_count) ELSE 3)
            THEN Ok("paid")
            ELSE DueDateStatus(next_due_date, reminder_days, today)

\* PaymentService::calculate_expected_amount: the total expected to date.
\* (days_enrolled / 30.44) as i32 truncates toward zero; the quotient is taken
\* on hundredths of a day, and .max(1) covers an enrollment in the future.
calculate_expected_amount(payment_plan, plan_amount, enrollment_date, installment_count, today) ==
    CASE payment_plan = "one-time" -> Ok(plan_amount)
      [] payment_plan = "monthly" ->
            Bind(ParseDate(enrollment_date), LAMBDA enrollment :
                IF ~IsSome(enrollment) THEN Err(DatabaseError("Invalid enrollment date"))
                ELSE Bind(NumDays(DateOfDay(today), Unwrap(enrollment)),
                          LAMBDA days_enrolled :
                            Ok(plan_amount *
                               (IF days_enrolled <= 0 THEN 1
                                ELSE ((days_enrolled * 100)
                                        \div DAYS_PER_MONTH_HUNDREDTHS) + 1))))
      [] payment_plan = "installment" ->
            Ok(plan_amount * (IF IsSome(installment_count)
                              THEN Unwrap(installment_count)
                              ELSE DEFAULT_INSTALLMENT_COUNT))

\* StudentService::validate_student_data (name and group are taken as valid)
validate_student_data(payment_plan, plan_amount, installment_count) ==
    IF plan_amount <= 0 THEN Err("Plan amount must be positive")
    ELSE IF plan_amount > MAX_PLAN_AMOUNT THEN Err("Plan amount cannot exceed 1,000,000")
    ELSE IF payment_plan = "installment" /\ IsSome(installment_count)
            /\ Unwrap(installment_count) <= 0
         THEN Err("Installment count must be positive")
    ELSE IF payment_plan = "installment" /\ IsSome(installment_count)
            /\ Unwrap(installment_count) > MAX_INSTALLMENT_COUNT
         THEN Err("Installment count cannot exceed 12")
    ELSE IF payment_plan = "installment" /\ ~IsSome(installment_count)
         THEN Err("Installment count is required for installment plans")
    ELSE Ok(Bool(TRUE))

-----------------------------------------------------------------------------
(* State *)

VARIABLES
    students,       \* table students: id -> row
    payments,       \* table payment_transactions: id -> row
    lastPaymentId,  \* sqlite_sequence of payment_transactions (AUTOINCREMENT)
    settings,       \* the PaymentPlanConfig keys of table settings
    today,          \* the system clock, as a day number (UTC date)
    result,         \* the last operation: what it returned, logged and read
    db_lock,        \* AppState.db, the Mutex: 0 when free, else the caller holding it
    calls,          \* the commands in progress, one per caller thread
    payment_settings, \* the row id = 1 of table payment_settings
    written,        \* the student rows the last recomputer command wrote
    attendance,     \* table attendance and its AUTOINCREMENT counter
    scanner,        \* SCANNER_LOCK: None until first used, then the ScannerState
    clock           \* Instant::now(), in milliseconds

vars == << students, payments, lastPaymentId, settings, today, result,
           db_lock, calls, payment_settings, written,
           attendance, scanner, clock >>

\* the state of the attendance scanner
scan_vars == << attendance, scanner, clock >>

\* table attendance before the first scan
NoAttendance == [rows |-> << >>, seq |-> 0]

\* the tables an operation reads and writes, as one value
Db == [students |-> students, payments |-> payments]

-----------------------------------------------------------------------------
(* Queries *)

\* StudentService::get_student_by_id
get_student_by_id(db, student_id) ==
    IF student_id \in DOMAIN db.students THEN Some(db.students[student_id]) ELSE None

\* the ids of a student's payment rows
PaymentsOf(db, student_id) ==
    { p \in DOMAIN db.payments : db.payments[p].student_id = student_id }

\* PaymentService::get_last_payment_date:
\* SELECT payment_date ... ORDER BY payment_date DESC LIMIT 1 (TEXT order)
get_last_payment_date(db, student_id) ==
    Bind(PaymentsOf(db, student_id), LAMBDA rows :
        IF rows = {} THEN None
        ELSE Some(db.payments[CHOOSE p \in rows :
                      \A q \in rows : TextLeq(db.payments[q].payment_date,
                                              db.payments[p].payment_date)
                  ].payment_date))

\* StudentService::get_payment_plan_config
get_payment_plan_config(cfg) == cfg

-----------------------------------------------------------------------------
(* Recompute of the cached fields *)

\* a due date anchored on the stored due date once a payment exists
DueDateAnchorStored(last_payment_date, stored_next_due_date) ==
    IF IsSome(last_payment_date) /\ IsSome(stored_next_due_date)
    THEN stored_next_due_date ELSE last_payment_date
\* `last_payment_date.as_deref()`: the due date is anchored on the most recent
\* payment date, never on the stored next_due_date
DueDateAnchor(last_payment_date, stored_next_due_date) == last_payment_date

\* PaymentService::update_student_payment_status.  failing: a storage error
\* in one of its statements.  Ok(db') or Err; an error leaves db as it was.
update_student_payment_status(db, cfg, day, student_id, failing) ==
    IF failing THEN Err(DatabaseError("storage"))
    ELSE
    Bind(get_student_by_id(db, student_id), LAMBDA found :
        IF ~IsSome(found) THEN Err(DatabaseError("Student not found"))
        ELSE
        Bind(Unwrap(found), LAMBDA student :
        Bind(get_payment_plan_config(cfg), LAMBDA config :
        Try(calculate_next_due_date(student.payment_plan,
                                    student.enrollment_date,
                                    DueDateAnchor(get_last_payment_date(db, student_id),
                                                  student.next_due_date),
                                    config.installment_interval),
            LAMBDA next_due_date :
        Try(calculate_payment_status(student.payment_plan,
                                     student.plan_amount,
                                     student.paid_amount,
                                     student.installment_count,
                                     next_due_date,
                                     student.enrollment_date,
                                     config.reminder_days,
                                     day),
            LAMBDA payment_status :
        Ok([db EXCEPT
               !.students[student_id].next_due_date = next_due_date,
               !.students[student_id].payment_status = payment_status]))))))

-----------------------------------------------------------------------------
(* The billing ledger *)

\* PaymentService::validate_payment_data (every PaymentMethod is accepted)
validate_payment_data(student_id, amount, payment_date) ==
    IF student_id = 0 THEN Err(ValidationError("Student ID cannot be empty"))
    ELSE IF amount <= 0 THEN Err(ValidationError("Payment amount must be positive"))
    ELSE IF amount > MAX_PAYMENT_AMOUNT
         THEN Err(ValidationError("Payment amount cannot exceed 1000000"))
    ELSE IF ~IsSome(ParseDate(payment_date))
         THEN Err(ValidationError("Invalid payment date format. Use YYYY-MM-DD"))
    ELSE Ok(Bool(TRUE))

\* a transaction whose drop would keep the writes made so far
RollbackKeepsWrites(before, working) == working
\* A rusqlite Transaction dropped without commit (an early return by `?`)
\* rolls back: the tables are as before it began.
Rollback(before, working) == before

\* an error after the commit that takes the committed writes back
CommitUndone(before, working) == before
\* tx.commit()?: the writes of the transaction stay, whatever fails later
Committed(before, working) == working

\* an audit write whose failure becomes the operation's error
AuditPropagated(returned, audit_failed) ==
    IF audit_failed THEN Err(DatabaseError("audit")) ELSE returned
\* `if let Ok(..) = serialize_data(..) { let _ = AuditService::log_..(..); }`:
\* the result of the audit write is dropped
AuditIgnored(returned, audit_failed) == returned

\* what a handler read on its way to the commit: the paid_amount of the
\* student row and, in delete_payment, the payment row
NoRead == [paid_amount |-> None, transaction |-> None]
Read(paid_amount, transaction) ==
    [paid_amount |-> paid_amount, transaction |-> transaction]

\* what an operation hands back: the tables, the AUTOINCREMENT counter, the
\* Result returned to the caller, the audit entries written, the values read
Outcome(db, seq, returned, audit, read) ==
    [db |-> db, seq |-> seq,
     status |-> IF returned.ok THEN "Ok" ELSE returned.err.kind,
     detail |-> IF returned.ok THEN "" ELSE returned.err.detail,
     val    |-> IF returned.ok THEN Some(returned.val) ELSE None,
     audit  |-> audit, read |-> read]

\* a record_payment that leaves paid_amount as it was
RecordNewPaidAmountKept(paid_amount, amount) == paid_amount
\* new_paid_amount of record_payment
RecordNewPaidAmount(paid_amount, amount) == paid_amount + amount

\* PaymentService::record_payment
record_payment(db, seq, cfg, day, request, fault) ==
    Bind(validate_payment_data(request.student_id, request.amount,
                               request.payment_date), LAMBDA valid :
    Bind(get_student_by_id(db, request.student_id), LAMBDA found :
        IF ~valid.ok THEN Outcome(db, seq, valid, {}, NoRead)
        ELSE IF ~IsSome(found) THEN Outcome(db, seq, Err(StudentNotFound), {}, NoRead)
        ELSE
        Bind(Unwrap(found), LAMBDA student :
        Bind(seq + 1, LAMBDA payment_id :
        Bind(IF fault = "insert" THEN db
             ELSE [db EXCEPT !.payments =
                      [p \in DOMAIN db.payments \cup {payment_id} |->
                          IF p = payment_id
                          THEN [student_id   |-> request.student_id,
                                amount       |-> request.amount,
                                payment_date |-> request.payment_date]
                          ELSE db.payments[p]]],
             LAMBDA inserted :
        Bind(IF fault \in {"insert", "update"} THEN inserted
             ELSE [inserted EXCEPT
                      !.students[request.student_id].paid_amount =
                          RecordNewPaidAmount(student.paid_amount, request.amount)],
             LAMBDA updated :
            IF fault \in {"insert", "update", "commit"}
            THEN Outcome(Rollback(db, updated), seq, Err(DatabaseError(fault)),
                         {}, NoRead)
            ELSE
            Bind(update_student_payment_status(updated, cfg, day, request.student_id,
                                               fault = "recompute"),
                 LAMBDA recomputed :
                IF ~recomputed.ok
                THEN Outcome(Committed(db, updated), payment_id, recomputed, {},
                             Read(Some(student.paid_amount), None))
                ELSE Outcome(recomputed.val, payment_id,
                             AuditIgnored(Ok(I32(payment_id)), fault = "audit"),
                             IF fault = "audit" THEN {}
                             ELSE {[action_type |-> "CREATE",
                                    record_id   |-> payment_id]},
                             Read(Some(student.paid_amount), None)))))))))

\* a subtraction without the floor at zero
DeleteNewPaidAmountUnclamped(paid_amount, amount) == paid_amount - amount
\* new_paid_amount of delete_payment: (student.paid_amount - amount).max(0)
DeleteNewPaidAmount(paid_amount, amount) ==
    IF paid_amount - amount > 0 THEN paid_amount - amount ELSE 0

\* a missing payment row reported as a storage error
QueryReturnedNoRowsIsError == Err(DatabaseError("Query returned no rows"))
\* Err(rusqlite::Error::QueryReturnedNoRows) => return Ok(false)
QueryReturnedNoRows == Ok(Bool(FALSE))

\* PaymentService::delete_payment
delete_payment(db, seq, cfg, day, payment_id, fault) ==
    IF payment_id \notin DOMAIN db.payments
    THEN Outcome(db, seq, QueryReturnedNoRows, {}, NoRead)
    ELSE
    Bind(db.payments[payment_id], LAMBDA transaction :
    Bind(IF fault = "delete" THEN db
         ELSE [db EXCEPT !.payments =
                  [p \in DOMAIN db.payments \ {payment_id} |-> db.payments[p]]],
         LAMBDA deleted :
    Bind(get_student_by_id(deleted, transaction.student_id), LAMBDA found :
        IF fault = "delete"
        THEN Outcome(Rollback(db, deleted), seq, Err(DatabaseError(fault)), {}, NoRead)
        ELSE IF ~IsSome(found)
        THEN Outcome(Rollback(db, deleted), seq,
                     Err(DatabaseError("Student not found")), {}, NoRead)
        ELSE
        Bind(Unwrap(found), LAMBDA student :
        Bind(IF fault = "update" THEN deleted
             ELSE [deleted EXCEPT !.students[transaction.student_id].paid_amount =
                      DeleteNewPaidAmount(student.paid_amount, transaction.amount)],
             LAMBDA updated :
            IF fault \in {"update", "commit"}
            THEN Outcome(Rollback(db, updated), seq, Err(DatabaseError(fault)),
                         {}, NoRead)
            ELSE
            Bind(IF fault = "audit" THEN {}
                 ELSE {[action_type |-> "DELETE", record_id |-> payment_id]},
                 LAMBDA audit :
            Bind(update_student_payment_status(updated, cfg, day,
                                               transaction.student_id,
                                               fault = "recompute"),
                 LAMBDA recomputed :
                IF ~recomputed.ok
                THEN Outcome(Committed(db, updated), seq, recomputed, audit,
                             Read(Some(student.paid_amount), Some(transaction)))
                ELSE Outcome(recomputed.val, seq,
                             AuditIgnored(Ok(Bool(TRUE)), fault = "audit"), audit,
                             Read(Some(student.paid_amount), Some(transaction))))))))))

-----------------------------------------------------------------------------
(* Student operations (StudentService) *)

\* StudentService::generate_student_id: MAX(numeric part) + 1, or 1
generate_student_id(db) ==
    IF DOMAIN db.students = {} THEN 1
    ELSE (CHOOSE m \in DOMAIN db.students : \A n \in DOMAIN db.students : n <= m) + 1

\* validate_student_data(..).map_err(DatabaseError::Migration)
ValidatedStudent(request) ==
    Bind(validate_student_data(request.payment_plan, request.plan_amount,
                               request.installment_count), LAMBDA valid :
        IF valid.ok THEN valid ELSE Err(DatabaseError(valid.err)))

\* StudentService::create_student: Ok(db') or Err
CreatedStudent(db, cfg, day, request) ==
    Try(ValidatedStudent(request), LAMBDA valid :
    Bind(generate_student_id(db), LAMBDA student_id :
    Bind(get_payment_plan_config(cfg), LAMBDA config :
    Bind(FormatDate(DateOfDay(day)), LAMBDA enrollment_date :
    Try(calculate_next_due_date(request.payment_plan, enrollment_date, None,
                                config.installment_interval),
        LAMBDA next_due_date :
    Try(calculate_payment_status(request.payment_plan, request.plan_amount, 0,
                                 request.installment_count, next_due_date,
                                 enrollment_date, config.reminder_days, day),
        LAMBDA payment_status :
    Ok([db EXCEPT !.students =
           [n \in DOMAIN db.students \cup {student_id} |->
               IF n = student_id
               THEN [payment_plan      |-> request.payment_plan,
                     plan_amount       |-> request.plan_amount,
                     installment_count |-> request.installment_count,
                     paid_amount       |-> 0,
                     enrollment_date   |-> enrollment_date,
                     next_due_date     |-> next_due_date,
                     payment_status    |-> payment_status]
               ELSE db.students[n]]])))))))

create_student(db, seq, cfg, day, request) ==
    Bind(CreatedStudent(db, cfg, day, request), LAMBDA created :
        Outcome(IF created.ok THEN created.val ELSE db, seq,
                IF created.ok THEN Ok(I32(generate_student_id(db))) ELSE created,
                {}, NoRead))

\* StudentService::update_student: Ok(db') or Err.  A changed payment plan
\* recalculates the due date without a last payment date; an unchanged plan
\* keeps the stored due date.
UpdatedStudent(db, cfg, day, student_id, request) ==
    Try(ValidatedStudent(request), LAMBDA valid :
    Bind(get_student_by_id(db, student_id), LAMBDA found :
        IF ~IsSome(found) THEN Err(DatabaseError("Student not found"))
        ELSE
        Bind(Unwrap(found), LAMBDA current_student :
        Bind(get_payment_plan_config(cfg), LAMBDA config :
        Try(IF current_student.payment_plan # request.payment_plan
            THEN calculate_next_due_date(request.payment_plan,
                                         current_student.enrollment_date, None,
                                         config.installment_interval)
            ELSE Ok(current_student.next_due_date),
            LAMBDA next_due_date :
        Try(calculate_payment_status(request.payment_plan, request.plan_amount,
                                     current_student.paid_amount,
                                     request.installment_count, next_due_date,
                                     current_student.enrollment_date,
                                     config.reminder_days, day),
            LAMBDA payment_status :
        Ok([db EXCEPT !.students[student_id] =
               [current_student EXCEPT
                   !.payment_plan      = request.payment_plan,
                   !.plan_amount       = request.plan_amount,
                   !.installment_count = request.installment_count,
                   !.next_due_date     = next_due_date,
                   !.payment_status    = payment_status]])))))))

update_student(db, seq, cfg, day, student_id, request) ==
    Bind(UpdatedStudent(db, cfg, day, student_id, request), LAMBDA updated :
        Outcome(IF updated.ok THEN updated.val ELSE db, seq,
                IF updated.ok THEN Ok(Bool(TRUE)) ELSE updated, {}, NoRead))

\* StudentService::delete_student; the payment rows of the student go with it
\* (payment_transactions.student_id ... ON DELETE CASCADE, foreign_keys = ON)
delete_student(db, seq, student_id) ==
    IF ~IsSome(get_student_by_id(db, student_id))
    THEN Outcome(db, seq, Err(DatabaseError("Student not found")), {}, NoRead)
    ELSE Outcome([students |-> [n \in DOMAIN db.students \ {student_id} |->
                                   db.students[n]],
                  payments |-> [p \in DOMAIN db.payments \ PaymentsOf(db, student_id) |->
                                   db.payments[p]]],
                 seq, Ok(Bool(TRUE)), {}, NoRead)

-----------------------------------------------------------------------------
(* The batch recomputers *)

\* a loop that ends at the first student whose recompute fails
LoopBreaks(failed_earlier) == failed_earlier = {}
\* `Err(e) => { log::warn!(..); failed_updates.push(..) }`: the loop over the
\* students goes on to the next student whoever failed before
LoopGoesOn(failed_earlier) == TRUE

\* PaymentService::update_all_payment_statuses: each student on its own, in
\* the order of get_all_students (created_at DESC: the highest id first);
\* failing is the set of students whose recompute meets a storage error
update_all_payment_statuses(db, seq, cfg, day, failing) ==
    Bind([n \in { m \in DOMAIN db.students :
                    LoopGoesOn({ f \in failing \cap DOMAIN db.students : f > m }) } |->
             update_student_payment_status(db, cfg, day, n, n \in failing)],
         LAMBDA each :
        Outcome([db EXCEPT !.students =
                    [n \in DOMAIN db.students |->
                        IF n \in DOMAIN each /\ each[n].ok
                        THEN each[n].val.students[n]
                        ELSE db.students[n]]],
                seq,
                Ok([successful_updates |->
                        Cardinality({ n \in DOMAIN each : each[n].ok }),
                    failed_updates |->
                        { [student_id |-> n, error |-> each[n].err.detail] :
                            n \in { m \in DOMAIN each : ~each[m].ok } }]),
                {}, NoRead))

\* the CASE expression of the bulk UPDATE for one row; now is date('now') and
\* horizon is date('now', '+N days'), both as TEXT; a NULL next_due_date makes
\* both comparisons NULL, which is not true
BatchStatus(student, reminder_days, day) ==
    Bind(CASE student.payment_plan = "one-time" -> student.plan_amount
           [] student.payment_plan = "installment" ->
                 student.plan_amount *
                     (IF IsSome(student.installment_count)
                      THEN Unwrap(student.installment_count)
                      ELSE DEFAULT_INSTALLMENT_COUNT)
           [] OTHER -> student.plan_amount,
         LAMBDA expected :
        IF student.paid_amount >= expected THEN "paid"
        ELSE IF IsSome(student.next_due_date)
                /\ TextLess(Unwrap(student.next_due_date), FormatDate(DateOfDay(day)))
             THEN "overdue"
        ELSE IF IsSome(student.next_due_date)
                /\ TextLeq(Unwrap(student.next_due_date),
                           FormatDate(DateOfDay(day + reminder_days)))
             THEN "due_soon"
        ELSE "pending")

\* PaymentService::update_all_payment_statuses_batch: one UPDATE over the rows
\* whose status differs from the CASE expression
update_all_payment_statuses_batch(db, seq, cfg, day) ==
    Bind(get_payment_plan_config(cfg), LAMBDA config :
    Bind([n \in DOMAIN db.students |->
             BatchStatus(db.students[n], config.reminder_days, day)],
         LAMBDA status :
        Outcome([db EXCEPT !.students =
                    [n \in DOMAIN db.students |->
                        [db.students[n] EXCEPT !.payment_status = status[n]]]],
                seq,
                Ok([successful_updates |->
                        Cardinality({ n \in DOMAIN db.students :
                                        db.students[n].payment_status # status[n] }),
                    failed_updates |-> {}]),
                {}, NoRead)))

\* StudentService::update_payment_statuses: the classifier on each student's
\* stored next_due_date, in the order of get_all_students (created_at DESC,
\* the larger id first); the first Err ends the loop and keeps the rows
\* written before it
update_payment_statuses(db, seq, cfg, day) ==
    Bind(get_payment_plan_config(cfg), LAMBDA config :
    Bind([n \in DOMAIN db.students |->
             calculate_payment_status(db.students[n].payment_plan,
                                      db.students[n].plan_amount,
                                      db.students[n].paid_amount,
                                      db.students[n].installment_count,
                                      db.students[n].next_due_date,
                                      db.students[n].enrollment_date,
                                      config.reminder_days, day)],
         LAMBDA new_status :
    Bind({ n \in DOMAIN db.students : ~new_status[n].ok }, LAMBDA failed :
        Outcome([db EXCEPT !.students =
                    [n \in DOMAIN db.students |->
                        IF \A m \in failed : m < n
                        THEN [db.students[n] EXCEPT
                                 !.payment_status = new_status[n].val]
                        ELSE db.students[n]]],
                seq,
                IF failed = {} THEN Ok(Bool(TRUE))
                ELSE new_status[CHOOSE n \in failed : \A m \in failed : m <= n],
                {}, NoRead))))

-----------------------------------------------------------------------------
(* The student rows a recomputer command writes, updated_at included *)

\* update_student_payment_status ends with `UPDATE students SET next_due_date,
\* payment_status, updated_at = now WHERE id`, whatever the row held
WritesRow(stored, recomputed) == TRUE

\* the row update_student_payment_status writes: none when it returns Err
StatusUpdateWrites(db, cfg, day, student_id, failing) ==
    Bind(update_student_payment_status(db, cfg, day, student_id, failing),
         LAMBDA recomputed :
            IF recomputed.ok
               /\ WritesRow(db.students[student_id],
                            recomputed.val.students[student_id])
            THEN {student_id} ELSE {})

\* the rows update_all_payment_statuses writes: one per student it visits
AllStatusesWrites(db, cfg, day, failing) ==
    { n \in DOMAIN db.students :
        /\ LoopGoesOn({ f \in failing \cap DOMAIN db.students : f > n })
        /\ StatusUpdateWrites(db, cfg, day, n, n \in failing) # {} }

\* the rows of the bulk UPDATE: `WHERE payment_status != CASE ... END`
BatchWrites(db, cfg, day) ==
    { n \in DOMAIN db.students :
        db.students[n].payment_status
            # BatchStatus(db.students[n], get_payment_plan_config(cfg).reminder_days, day) }

\* the rows update_payment_statuses writes: `if new_status !=
\* student.payment_status`, up to the first student whose classifier fails
StatusesWrites(db, cfg, day) ==
    { n \in DOMAIN db.students :
        update_payment_statuses(db, 0, cfg, day).db.students[n].payment_status
            # db.students[n].payment_status }

-----------------------------------------------------------------------------
(* The state machine: one action per externally triggered operation.  Every *)
(* operation runs with the database mutex held from start to end.          *)

\* the threads that run commands, and a thread that runs none
Callers == 1..MaxCallers
IdleCall ==
    [pc |-> "idle", op |-> "", student_id |-> 0, amount |-> 0,
     payment_date |-> << >>, payment_id |-> 0, paid_amount |-> 0,
     status |-> "Ok", val |-> None]
NoCalls == [caller \in Callers |-> IdleCall]

NoResult(op) ==
    [op |-> op, status |-> "Ok", detail |-> "", val |-> None, audit |-> {},
     read |-> NoRead]

\* a fresh database: the first start of the application
Init ==
    /\ students = << >>
    /\ payments = << >>
    /\ lastPaymentId = 0
    /\ settings = DefaultConfig
    /\ today = StartDay
    /\ result = NoResult("init")
    /\ db_lock = 0
    /\ calls = NoCalls
    /\ payment_settings = DefaultPaymentSettings
    /\ written = {}
    /\ attendance = NoAttendance
    /\ scanner = None
    /\ clock = 0

\* the attendance rows that stay with the students: `FOREIGN KEY (student_id)
\* REFERENCES students (id) ON DELETE CASCADE`
AttendanceOf(rows, remaining) ==
    [a \in { i \in DOMAIN rows : rows[i].student_id \in DOMAIN remaining } |-> rows[a]]

\* the effect of an operation's outcome on the state; rows are the student
\* rows a recomputer command wrote with updated_at = now
ApplyWriting(op, out, rows) ==
    /\ students' = out.db.students
    /\ payments' = out.db.payments
    /\ lastPaymentId' = out.seq
    /\ result' = [op |-> op, status |-> out.status, detail |-> out.detail,
                  val |-> out.val, audit |-> out.audit, read |-> out.read]
    /\ written' = rows
    /\ attendance' = [attendance EXCEPT !.rows = AttendanceOf(@, out.db.students)]
    /\ UNCHANGED << settings, today, db_lock, calls, payment_settings, scanner, clock >>

\* the effect of an operation that is no recomputer command
Apply(op, out) == ApplyWriting(op, out, {})

CreateStudent(request) ==
    /\ generate_student_id(Db) <= MaxStudents
    /\ Apply("create_student",
             create_student(Db, lastPaymentId, settings, today, request))

UpdateStudent(student_id, request) ==
    Apply("update_student",
          update_student(Db, lastPaymentId, settings, today, student_id, request))

DeleteStudent(student_id) ==
    Apply("delete_student", delete_student(Db, lastPaymentId, student_id))

\* record_payment while fewer than limit payment rows were ever inserted
RecordPaymentWithin(limit, request, fault) ==
    /\ lastPaymentId < limit
    /\ Apply("record_payment",
             record_payment(Db, lastPaymentId, settings, today, request, fault))

RecordPayment(request, fault) == RecordPaymentWithin(MaxPayments, request, fault)

DeletePayment(payment_id, fault) ==
    Apply("delete_payment",
          delete_payment(Db, lastPaymentId, settings, today, payment_id, fault))

UpdateStudentPaymentStatus(student_id) ==
    Bind(update_student_payment_status(Db, settings, today, student_id, FALSE),
         LAMBDA r :
            ApplyWriting("update_student_payment_status",
                         Outcome(IF r.ok THEN r.val ELSE Db, lastPaymentId,
                                 IF r.ok THEN Ok(Bool(TRUE)) ELSE r, {}, NoRead),
                         StatusUpdateWrites(Db, settings, today, student_id, FALSE)))

UpdateAllPaymentStatuses(failing) ==
    ApplyWriting("update_all_payment_statuses",
                 update_all_payment_statuses(Db, lastPaymentId, settings, today, failing),
                 AllStatusesWrites(Db, settings, today, failing))

UpdateAllPaymentStatusesBatch ==
    ApplyWriting("update_all_payment_statuses_batch",
                 update_all_payment_statuses_batch(Db, lastPaymentId, settings, today),
                 BatchWrites(Db, settings, today))

UpdatePaymentStatuses ==
    ApplyWriting("update_payment_statuses",
                 update_payment_statuses(Db, lastPaymentId, settings, today),
                 StatusesWrites(Db, settings, today))

\* SettingsService::update_payment_plan_config
UpdatePaymentPlanConfig(config) ==
    /\ settings' = config
    /\ result' = NoResult("update_payment_plan_config")
    /\ written' = {}
    /\ UNCHANGED << students, payments, lastPaymentId, today, db_lock, calls, payment_settings, scan_vars >>

\* PaymentSettingsService::validate_payment_settings (amounts and threshold
\* are taken as valid)
validate_payment_settings(request) ==
    IF request.installment_interval_months < 1
       \/ request.installment_interval_months > 12
    THEN Err(DatabaseError("Installment interval must be between 1 and 12 months"))
    ELSE IF request.reminder_days < 0 \/ request.reminder_days > 365
    THEN Err(DatabaseError("Reminder days must be between 0 and 365"))
    ELSE Ok(Bool(TRUE))

\* PaymentSettingsService::update_payment_settings: validates, then
\* UPDATE payment_settings ... WHERE id = 1.  It writes no key of table
\* settings.
UpdatePaymentSettings(request) ==
    /\ Bind(validate_payment_settings(request), LAMBDA valid :
          /\ payment_settings' = IF valid.ok THEN request ELSE payment_settings
          /\ result' = [NoResult("update_payment_settings") EXCEPT
                           !.status = IF valid.ok THEN "Ok" ELSE valid.err.kind,
                           !.detail = IF valid.ok THEN "" ELSE valid.err.detail])
    /\ written' = {}
    /\ UNCHANGED << students, payments, lastPaymentId, settings, today,
                    db_lock, calls, scan_vars >>

\* days pass between two uses of the application
Tick ==
    /\ today + DayStep <= StartDay + MaxTicks * DayStep
    /\ today' = today + DayStep
    /\ result' = NoResult("tick")
    /\ written' = {}
    /\ UNCHANGED << students, payments, lastPaymentId, settings, db_lock, calls, payment_settings, scan_vars >>

Next ==
    \/ \E request \in StudentRequests : CreateStudent(request)
    \/ \E student_id \in 1..MaxStudents, request \in StudentRequests :
           UpdateStudent(student_id, request)
    \/ \E student_id \in 1..MaxStudents : DeleteStudent(student_id)
    \/ \E request \in RecordPaymentRequests : \E fault \in FaultsOf(request) :
           RecordPayment(request, fault)
    \/ \E payment_id \in 1..MaxPayments, fault \in DeleteFaults :
           DeletePayment(payment_id, fault)
    \/ \E student_id \in 1..MaxStudents : UpdateStudentPaymentStatus(student_id)
    \/ \E failing \in SUBSET (1..MaxStudents) : UpdateAllPaymentStatuses(failing)
    \/ UpdateAllPaymentStatusesBatch
    \/ UpdatePaymentStatuses
    \/ \E config \in Configs : UpdatePaymentPlanConfig(config)
    \/ Tick

Spec == Init /\ [][Next]_vars

-----------------------------------------------------------------------------
(* The operations when no storage error occurs and every payment request   *)
(* passes the validation, with one more payment.                           *)

\* payment rows ever inserted in SpecNoStorageError
MaxLedgerPayments == 3

LedgerRequests ==
    [student_id : 1..MaxStudents, amount : {1},
     payment_date : PaddedDateTexts \cup UnpaddedDateTexts]

NextNoStorageError ==
    \/ \E request \in StudentRequests : CreateStudent(request)
    \/ \E student_id \in 1..MaxStudents, request \in StudentRequests :
           UpdateStudent(student_id, request)
    \/ \E request \in LedgerRequests :
           RecordPaymentWithin(MaxLedgerPayments, request, "none")
    \/ \E payment_id \in 1..MaxLedgerPayments : DeletePayment(payment_id, "none")
    \/ UpdateAllPaymentStatuses({})
    \/ UpdateAllPaymentStatusesBatch
    \/ UpdatePaymentStatuses
    \/ \E config \in Configs : UpdatePaymentPlanConfig(config)
    \/ Tick

SpecNoStorageError == Init /\ [][NextNoStorageError]_vars

-----------------------------------------------------------------------------
(* The application started on a database file that already exists.  The    *)
(* schema (database/schema.rs) constrains students.paid_amount to INTEGER  *)
(* NOT NULL and payment_transactions.student_id to an existing student; it *)
(* does not relate paid_amount to the payment rows.                         *)

\* the largest paid_amount stored in an existing file
MaxExistingPaid == 2

ExistingStudents ==
    { [payment_plan      |-> plan,
       plan_amount       |-> 2,
       installment_count |-> IF plan = "installment" THEN Some(2) ELSE None,
       paid_amount       |-> paid,
       enrollment_date   |-> FormatDate(DateOfDay(StartDay)),
       next_due_date     |-> Some(FormatDate(DateOfDay(StartDay))),
       payment_status    |-> "pending"] :
      plan \in PaymentPlan, paid \in 0..MaxExistingPaid }

ExistingPayments ==
    { RecordPaymentRequest(1, amount, FormatDate(DateOfDay(StartDay))) :
        amount \in 1..MaxExistingPaid }

InitExisting ==
    /\ \E student \in ExistingStudents : students = << student >>
    /\ \E row \in ExistingPayments : payments = << row >>
    /\ lastPaymentId = 1
    /\ settings = DefaultConfig
    /\ today = StartDay
    /\ result = NoResult("init")
    /\ db_lock = 0
    /\ calls = NoCalls
    /\ payment_settings = DefaultPaymentSettings
    /\ written = {}
    /\ attendance = NoAttendance
    /\ scanner = None
    /\ clock = 0

NextExisting ==
    \/ \E request \in RecordPaymentRequests : \E fault \in FaultsOf(request) :
           RecordPayment(request, fault)
    \/ \E payment_id \in 1..MaxPayments, fault \in DeleteFaults :
           DeletePayment(payment_id, fault)

SpecExisting == InitExisting /\ [][NextExisting]_vars

-----------------------------------------------------------------------------
(* The calculators applied to the rows of a database file that already     *)
(* exists: every plan, amounts paid below, at and above what is expected,  *)
(* enrollments 10, 30 and 31 days before today, stored due dates around    *)
(* today, and zero or one payment row.  The recompute commands apply       *)
(* calculate_next_due_date and calculate_payment_status to the row.        *)

\* days between enrollment and today
EnrolledDaysAgo == {10, 30, 31}
\* stored next_due_date, in days from today
DueInDays == {-1, 0, 5, 7, 8}
\* paid_amount of the row, for plan_amount = 2
PaidAmounts == {0, 1, 2, 4, 6}

CalculatorStudents ==
    { [payment_plan      |-> plan,
       plan_amount       |-> 2,
       installment_count |-> count,
       paid_amount       |-> paid,
       enrollment_date   |-> FormatDate(DateOfDay(StartDay - ago)),
       next_due_date     |-> due,
       payment_status    |-> "pending"] :
      plan \in PaymentPlan,
      count \in {None, Some(2)},
      paid \in PaidAmounts,
      ago \in EnrolledDaysAgo,
      due \in {None} \cup { Some(FormatDate(DateOfDay(StartDay + n))) : n \in DueInDays } }

CalculatorPayments ==
    { << >> } \cup
    { << RecordPaymentRequest(1, 1, FormatDate(dt)) >> : dt \in LastPaymentDates }

CalculatorConfigs ==
    Configs \cup { [installment_interval |-> 12, reminder_days |-> 7] }

InitCalculators ==
    /\ \E student \in CalculatorStudents :
          /\ student.payment_plan # "installment" => student.installment_count = None
          /\ students = << student >>
    /\ payments \in CalculatorPayments
    /\ lastPaymentId = Len(payments)
    /\ settings \in CalculatorConfigs
    /\ today = StartDay
    /\ result = NoResult("init")
    /\ db_lock = 0
    /\ calls = NoCalls
    /\ payment_settings = DefaultPaymentSettings
    /\ written = {}
    /\ attendance = NoAttendance
    /\ scanner = None
    /\ clock = 0

NextCalculators ==
    \/ \E student_id \in 1..MaxStudents : UpdateStudentPaymentStatus(student_id)
    \/ UpdatePaymentStatuses

SpecCalculators == InitCalculators /\ [][NextCalculators]_vars

-----------------------------------------------------------------------------
(* Commands issued at the same time.  Every command begins with            *)
(* state.db.lock() and keeps the MutexGuard until it returns (lib.rs); the  *)
(* statements of record_payment and delete_payment are separate steps of   *)
(* the caller's thread, so that what the lock excludes can be seen.  All    *)
(* statements go through the one Connection, which sees its own            *)
(* uncommitted writes.  No storage error is injected here.                 *)

\* payment rows ever inserted while commands run at the same time
MaxConcurrentPayments == 2

\* Mutex::lock given to every thread that asks
LockGrantedToAll(holder) == TRUE
\* Mutex::lock returns when no other thread holds the guard
LockGranted(holder) == holder = 0

\* a caller's command in progress, moved to its next statement
Goto(caller, label) == [calls EXCEPT ![caller].pc = label]

\* the frontend invokes record_payment on a thread of the runtime
CallRecordPayment(caller, request) ==
    /\ calls[caller].pc = "idle"
    /\ lastPaymentId < MaxConcurrentPayments
    /\ calls' = [calls EXCEPT ![caller] =
                    [IdleCall EXCEPT !.pc = "lock", !.op = "record_payment",
                                     !.student_id = request.student_id,
                                     !.amount = request.amount,
                                     !.payment_date = request.payment_date]]
    /\ UNCHANGED << students, payments, lastPaymentId, settings, today, result, db_lock, payment_settings, written, scan_vars >>

\* the frontend invokes delete_payment on a thread of the runtime
CallDeletePayment(caller, payment_id) ==
    /\ calls[caller].pc = "idle"
    /\ calls' = [calls EXCEPT ![caller] =
                    [IdleCall EXCEPT !.pc = "lock", !.op = "delete_payment",
                                     !.payment_id = payment_id]]
    /\ UNCHANGED << students, payments, lastPaymentId, settings, today, result, db_lock, payment_settings, written, scan_vars >>

\* let db = state.db.lock()
LockDb(caller) ==
    /\ calls[caller].pc = "lock"
    /\ LockGranted(db_lock)
    /\ db_lock' = caller
    /\ calls' = Goto(caller, "begin")
    /\ UNCHANGED << students, payments, lastPaymentId, settings, today, result, payment_settings, written, scan_vars >>

\* record_payment: validate_payment_data and get_student_by_id, which reads
\* student.paid_amount
RecordLookup(caller) ==
    /\ calls[caller].pc = "begin"
    /\ calls[caller].op = "record_payment"
    /\ calls' =
         Bind(validate_payment_data(calls[caller].student_id, calls[caller].amount,
                                    calls[caller].payment_date), LAMBDA valid :
         Bind(get_student_by_id(Db, calls[caller].student_id), LAMBDA found :
            IF ~valid.ok
            THEN [calls EXCEPT ![caller].pc = "return",
                               ![caller].status = valid.err.kind]
            ELSE IF ~IsSome(found)
            THEN [calls EXCEPT ![caller].pc = "return",
                               ![caller].status = StudentNotFound.kind]
            ELSE [calls EXCEPT ![caller].pc = "insert",
                               ![caller].paid_amount = Unwrap(found).paid_amount]))
    /\ UNCHANGED << students, payments, lastPaymentId, settings, today, result, db_lock, payment_settings, written, scan_vars >>

\* record_payment: INSERT INTO payment_transactions, last_insert_rowid
RecordInsert(caller) ==
    /\ calls[caller].pc = "insert"
    /\ lastPaymentId' = lastPaymentId + 1
    /\ payments' = [p \in DOMAIN payments \cup {lastPaymentId + 1} |->
                       IF p = lastPaymentId + 1
                       THEN [student_id   |-> calls[caller].student_id,
                             amount       |-> calls[caller].amount,
                             payment_date |-> calls[caller].payment_date]
                       ELSE payments[p]]
    /\ calls' = [calls EXCEPT ![caller].pc = "update",
                              ![caller].payment_id = lastPaymentId + 1,
                              ![caller].val = Some(I32(lastPaymentId + 1))]
    /\ UNCHANGED << students, settings, today, result, db_lock, payment_settings, written, scan_vars >>

\* record_payment: UPDATE students SET paid_amount = new_paid_amount; commit
RecordUpdate(caller) ==
    /\ calls[caller].pc = "update"
    /\ calls[caller].op = "record_payment"
    /\ students' = [students EXCEPT ![calls[caller].student_id].paid_amount =
                       RecordNewPaidAmount(calls[caller].paid_amount,
                                           calls[caller].amount)]
    /\ calls' = Goto(caller, "recompute")
    /\ UNCHANGED << payments, lastPaymentId, settings, today, result, db_lock, payment_settings, written, scan_vars >>

\* delete_payment: SELECT the payment row; no row returns Ok(false)
DeleteSelect(caller) ==
    /\ calls[caller].pc = "begin"
    /\ calls[caller].op = "delete_payment"
    /\ calls' =
         IF calls[caller].payment_id \notin DOMAIN payments
         THEN [calls EXCEPT ![caller].pc = "return",
                            ![caller].val = Some(QueryReturnedNoRows.val)]
         ELSE [calls EXCEPT ![caller].pc = "delete",
                            ![caller].student_id =
                                payments[calls[caller].payment_id].student_id,
                            ![caller].amount =
                                payments[calls[caller].payment_id].amount]
    /\ UNCHANGED << students, payments, lastPaymentId, settings, today, result, db_lock, payment_settings, written, scan_vars >>

\* delete_payment: DELETE the row (rows_affected = 0 returns Ok(false)), then
\* get_student_by_id, which reads student.paid_amount
DeleteRow(caller) ==
    /\ calls[caller].pc = "delete"
    /\ IF calls[caller].payment_id \notin DOMAIN payments
       THEN /\ calls' = [calls EXCEPT ![caller].pc = "return",
                                      ![caller].val = Some(Bool(FALSE))]
            /\ UNCHANGED payments
       ELSE /\ payments' = [p \in DOMAIN payments \ {calls[caller].payment_id} |->
                               payments[p]]
            /\ calls' = [calls EXCEPT ![caller].pc = "update",
                                      ![caller].paid_amount =
                                          students[calls[caller].student_id].paid_amount]
    /\ UNCHANGED << students, lastPaymentId, settings, today, result, db_lock, payment_settings, written, scan_vars >>

\* delete_payment: UPDATE students SET paid_amount = new_paid_amount; commit
DeleteUpdate(caller) ==
    /\ calls[caller].pc = "update"
    /\ calls[caller].op = "delete_payment"
    /\ students' = [students EXCEPT ![calls[caller].student_id].paid_amount =
                       DeleteNewPaidAmount(calls[caller].paid_amount,
                                           calls[caller].amount)]
    /\ calls' = [calls EXCEPT ![caller].pc = "recompute",
                              ![caller].val = Some(Bool(TRUE))]
    /\ UNCHANGED << payments, lastPaymentId, settings, today, result, db_lock, payment_settings, written, scan_vars >>

\* both commands: update_student_payment_status(db, &student_id)?
Recompute(caller) ==
    /\ calls[caller].pc = "recompute"
    /\ Bind(update_student_payment_status(Db, settings, today,
                                          calls[caller].student_id, FALSE),
            LAMBDA recomputed :
              IF recomputed.ok
              THEN /\ students' = recomputed.val.students
                   /\ calls' = Goto(caller, "return")
              ELSE /\ students' = students
                   /\ calls' = [calls EXCEPT ![caller].pc = "return",
                                             ![caller].status = recomputed.err.kind,
                                             ![caller].val = None])
    /\ UNCHANGED << payments, lastPaymentId, settings, today, result, db_lock, payment_settings, written, scan_vars >>

\* the command returns and its MutexGuard is dropped
ReturnAndUnlock(caller) ==
    /\ calls[caller].pc = "return"
    /\ db_lock' = 0
    /\ result' = [NoResult(calls[caller].op) EXCEPT
                     !.status = calls[caller].status,
                     !.val = calls[caller].val]
    /\ calls' = [calls EXCEPT ![caller] = IdleCall]
    /\ UNCHANGED << students, payments, lastPaymentId, settings, today, payment_settings, written, scan_vars >>

\* the students enrolled before the commands are issued
EnrolledPair(first, second) ==
    CreatedStudent(CreatedStudent([students |-> << >>, payments |-> << >>],
                                  DefaultConfig, StartDay, first).val,
                   DefaultConfig, StartDay, second).val.students

InitConcurrent ==
    /\ \E first, second \in { request \in StudentRequests :
                                 ValidatedStudent(request).ok } :
          students = EnrolledPair(first, second)
    /\ payments = << >>
    /\ lastPaymentId = 0
    /\ settings = DefaultConfig
    /\ today = StartDay
    /\ result = NoResult("init")
    /\ db_lock = 0
    /\ calls = NoCalls
    /\ payment_settings = DefaultPaymentSettings
    /\ written = {}
    /\ attendance = NoAttendance
    /\ scanner = None
    /\ clock = 0

\* the requests issued at the same time: for either student
ConcurrentRequests ==
    { RecordPaymentRequest(student_id, 1, FormatDate(DateOfDay(StartDay))) :
        student_id \in 1..2 }

NextConcurrent ==
    \E caller \in Callers :
        \/ \E request \in ConcurrentRequests : CallRecordPayment(caller, request)
        \/ \E payment_id \in 1..MaxConcurrentPayments :
               CallDeletePayment(caller, payment_id)
        \/ LockDb(caller)
        \/ RecordLookup(caller)
        \/ RecordInsert(caller)
        \/ RecordUpdate(caller)
        \/ DeleteSelect(caller)
        \/ DeleteRow(caller)
        \/ DeleteUpdate(caller)
        \/ Recompute(caller)
        \/ ReturnAndUnlock(caller)

SpecConcurrent == InitConcurrent /\ [][NextConcurrent]_vars

-----------------------------------------------------------------------------
(* The row-by-row recomputer run over two students, on the day they        *)
(* enrolled or a month later, with a storage error in the recompute of     *)
(* any of them.                                                            *)

\* the two students are enrolled and no command is running
InitRecomputers == InitConcurrent

NextRecomputers ==
    \/ \E failing \in SUBSET DOMAIN students : UpdateAllPaymentStatuses(failing)
    \/ \E config \in Configs : UpdatePaymentPlanConfig(config)
    \/ Tick

SpecRecomputers == InitRecomputers /\ [][NextRecomputers]_vars

-----------------------------------------------------------------------------
(* The global payment settings changed between recomputes.  The            *)
(* application has two commands that change them: update_payment_settings  *)
(* (table payment_settings) and update_payment_plan_config_settings (keys  *)
(* of table settings).  Payments carry zero-padded dates and no storage    *)
(* error is injected.                                                      *)

\* the requests recorded while the settings change
SettingsLedgerRequests ==
    { RecordPaymentRequest(student_id, 1, payment_date) :
        student_id \in 1..MaxStudents, payment_date \in PaddedDateTexts }

NextSettings ==
    \/ \E request \in StudentRequests : CreateStudent(request)
    \/ \E request \in SettingsLedgerRequests : RecordPayment(request, "none")
    \/ \E student_id \in 1..MaxStudents : UpdateStudentPaymentStatus(student_id)
    \/ \E config \in Configs : UpdatePaymentPlanConfig(config)
    \/ \E request \in PaymentSettingsRequests : UpdatePaymentSettings(request)

SpecSettings == Init /\ [][NextSettings]_vars

-----------------------------------------------------------------------------
(* The attendance scanner: ScannerLock and AttendanceService::mark_attendance *)

\* Durations, in milliseconds
RETRY_INTERVAL == 100
MIN_SCAN_INTERVAL == 500
\* `Duration::from_secs(5)`, the timeout mark_attendance acquires with
SCAN_TIMEOUT == 5000

\* the clock of the scanner runs to MaxClock; scan_count is kept below MaxScans
MaxClock == 7000
MaxScans == 3

\* ScannerState::new
ScannerStateNew(now) ==
    [is_locked |-> FALSE, last_scan |-> now, scan_count |-> 0, errors |-> 0]

\* Lazy::new: the state is made at the first use of SCANNER_LOCK
ForcedScanner(lock, now) == IF IsSome(lock) THEN Unwrap(lock) ELSE ScannerStateNew(now)

\* ScannerState::can_scan
can_scan(state, now) ==
    ~state.is_locked /\ now - state.last_scan >= MIN_SCAN_INTERVAL

\* ScannerState::record_scan
record_scan(state, now) ==
    [state EXCEPT !.is_locked = TRUE, !.last_scan = now, !.scan_count = @ + 1]

\* ScannerLock::record_error (try_lock meets no other holder)
record_error(state) == [state EXCEPT !.errors = @ + 1]

\* ScannerLock::release (try_lock meets no other holder)
release(state) == [state EXCEPT !.is_locked = FALSE]

\* the sleeps of RETRY_INTERVAL until last_scan is MIN_SCAN_INTERVAL old
SleptUntilScan(state, now) ==
    IF now - state.last_scan >= MIN_SCAN_INTERVAL THEN 0
    ELSE ((MIN_SCAN_INTERVAL - (now - state.last_scan) + RETRY_INTERVAL - 1)
              \div RETRY_INTERVAL) * RETRY_INTERVAL

\* ScannerLock::acquire_with_timeout: polls every RETRY_INTERVAL while less
\* than timeout has passed; a held lock is never freed meanwhile, as the
\* caller holds the database mutex that every mark_attendance needs
acquire_with_timeout(lock, now, timeout) ==
    Bind(ForcedScanner(lock, now), LAMBDA state :
    Bind(SleptUntilScan(state, now), LAMBDA slept :
        IF can_scan(state, now + slept) /\ slept < timeout
        THEN [ok |-> TRUE, lock |-> Some(record_scan(state, now + slept)),
              now |-> now + slept]
        ELSE [ok |-> FALSE, lock |-> Some(state), now |-> now + timeout]))

\* what mark_attendance leaves: the table, the scanner, the clock, the Result
\* and the audit entries
Attended(table, lock, now, returned, audit) ==
    [table |-> table, lock |-> lock, now |-> now, returned |-> returned,
     audit |-> audit]

\* the statement of mark_attendance that meets a storage error
AttendanceFaults == {"none", "begin", "insert", "read", "commit", "audit"}

\* AttendanceService::mark_attendance
mark_attendance(db, table, lock, now, student_id, date, fault) ==
    IF ~IsSome(ParseDate(date))
    THEN Attended(table, lock, now,
                  Err(DatabaseError("Invalid date format. Use YYYY-MM-DD")), {})
    ELSE IF student_id \notin DOMAIN db.students
    THEN Attended(table, lock, now, Err(DatabaseError("Student does not exist")),
                  {[action_type |-> "INVALID_STUDENT_ID", record_id |-> student_id]})
    ELSE IF \E a \in DOMAIN table.rows :
               table.rows[a] = [student_id |-> student_id, date |-> date]
    THEN Attended(table, lock, now,
                  Err(DatabaseError("Attendance already marked for this date")),
                  {[action_type |-> "DUPLICATE_ATTENDANCE_ATTEMPT",
                    record_id   |-> student_id]})
    ELSE
    Bind(acquire_with_timeout(lock, now, SCAN_TIMEOUT), LAMBDA acquired :
        IF ~acquired.ok
        THEN Attended(table, acquired.lock, acquired.now,
                      Err(DatabaseError("Scanner lock acquisition timeout")), {})
        ELSE IF fault \in {"begin", "commit"}
        THEN Attended(table, acquired.lock, acquired.now,
                      Err(DatabaseError(fault)), {})
        ELSE IF fault \in {"insert", "read"}
        THEN Attended(table, Some(record_error(Unwrap(acquired.lock))), acquired.now,
                      Err(DatabaseError(fault)), {})
        ELSE
        Bind(table.seq + 1, LAMBDA id :
        Bind([rows |-> [a \in DOMAIN table.rows \cup {id} |->
                           IF a = id
                           THEN [student_id |-> student_id, date |-> date]
                           ELSE table.rows[a]],
              seq  |-> id],
             LAMBDA committed :
            IF fault = "audit"
            THEN Attended(committed, Some(release(Unwrap(acquired.lock))),
                          acquired.now, Err(DatabaseError(fault)), {})
            ELSE Attended(committed, Some(release(Unwrap(acquired.lock))),
                          acquired.now, Ok(I32(id)),
                          {[action_type |-> "MARK_ATTENDANCE", record_id |-> id]}))))

\* the command mark_attendance, with the database mutex held from start to end
MarkAttendance(student_id, date, fault) ==
    /\ clock + SCAN_TIMEOUT <= MaxClock
    /\ ForcedScanner(scanner, clock).scan_count < MaxScans
    /\ Bind(mark_attendance(Db, attendance, scanner, clock, student_id, date, fault),
            LAMBDA out :
               /\ attendance' = out.table
               /\ scanner' = out.lock
               /\ clock' = out.now
               /\ result' = [NoResult("mark_attendance") EXCEPT
                                !.status = IF out.returned.ok THEN "Ok"
                                           ELSE out.returned.err.kind,
                                !.detail = IF out.returned.ok THEN ""
                                           ELSE out.returned.err.detail,
                                !.val    = IF out.returned.ok
                                           THEN Some(out.returned.val) ELSE None,
                                !.audit  = out.audit])
    /\ written' = {}
    /\ UNCHANGED << students, payments, lastPaymentId, settings, today, db_lock,
                    calls, payment_settings >>

\* time passes between two scans
Wait ==
    /\ clock + MIN_SCAN_INTERVAL <= MaxClock
    /\ clock' = clock + MIN_SCAN_INTERVAL
    /\ result' = NoResult("wait")
    /\ written' = {}
    /\ UNCHANGED << students, payments, lastPaymentId, settings, today, db_lock,
                    calls, payment_settings, attendance, scanner >>

\* the dates scanned: 2024-01-15, 2024-02-15 and a text that is no date
AttendanceDates ==
    { FormatDate(DateOfDay(StartDay)), FormatDate(DateOfDay(StartDay + DayStep)) }
    \cup { FormatDate(Date(2024, 13, 1)) }

InitScanner == InitConcurrent

NextScanner ==
    \/ \E student_id \in 1..(MaxStudents + 1), date \in AttendanceDates,
          fault \in AttendanceFaults :
           MarkAttendance(student_id, date, fault)
    \/ \E student_id \in 1..MaxStudents : DeleteStudent(student_id)
    \/ Wait

SpecScanner == InitScanner /\ [][NextScanner]_vars

-----------------------------------------------------------------------------
(* What the specification says of the ledger and of the cached fields *)

\* the sum of the amounts of a set of payment rows
RECURSIVE SumAmounts(_, _)
SumAmounts(rows, ids) ==
    IF ids = {} THEN 0
    ELSE Bind(CHOOSE p \in ids : TRUE, LAMBDA p :
             rows[p].amount + SumAmounts(rows, ids \ {p}))

\* the calendar day a stored payment_date denotes
PaymentDay(row) == DayNumber(Unwrap(ParseDate(row.payment_date)))

\* the most recent payment date of a student by the calendar, None without
\* payments
MostRecentPaymentDate(db, student_id) ==
    Bind(PaymentsOf(db, student_id), LAMBDA rows :
        IF rows = {} THEN None
        ELSE Some(db.payments[CHOOSE p \in rows :
                      \A q \in rows : PaymentDay(db.payments[q])
                                          <= PaymentDay(db.payments[p])
                  ].payment_date))

\* the due date the calculator returns for a student's persisted fields, its
\* payment history and the PlanConfig
ExpectedDueDate(db, cfg, student_id) ==
    calculate_next_due_date(db.students[student_id].payment_plan,
                            db.students[student_id].enrollment_date,
                            MostRecentPaymentDate(db, student_id),
                            cfg.installment_interval)

\* the status the classifier returns for a student's persisted fields, that
\* due date, the PlanConfig and today
ExpectedStatus(db, cfg, day, student_id) ==
    Try(ExpectedDueDate(db, cfg, student_id), LAMBDA next_due_date :
        calculate_payment_status(db.students[student_id].payment_plan,
                                 db.students[student_id].plan_amount,
                                 db.students[student_id].paid_amount,
                                 db.students[student_id].installment_count,
                                 next_due_date,
                                 db.students[student_id].enrollment_date,
                                 cfg.reminder_days, day))

\* the stored next_due_date and payment_status of a student are the
\* calculators' results
CacheIsFresh(db, cfg, day, student_id) ==
    /\ Ok(db.students[student_id].next_due_date) = ExpectedDueDate(db, cfg, student_id)
    /\ Ok(db.students[student_id].payment_status)
           = ExpectedStatus(db, cfg, day, student_id)

-----------------------------------------------------------------------------
(* C1 *)

\* C1: after every successful or failed record_payment and delete_payment,
\* each student's paid_amount equals the sum of the amounts of the student's
\* existing payment rows, and it is never negative.
C1_PaidAmountIsSumOfPayments ==
    \A n \in DOMAIN students :
        /\ students[n].paid_amount = SumAmounts(payments, PaymentsOf(Db, n))
        /\ students[n].paid_amount >= 0

\* a payment was deleted and the student keeps another one, so the sum is
\* over a remaining row and is positive
C1_Witness ==
    /\ result.op = "delete_payment"
    /\ result.val = Some(Bool(TRUE))
    /\ \E n \in DOMAIN students :
          /\ PaymentsOf(Db, n) # {}
          /\ students[n].paid_amount = SumAmounts(payments, PaymentsOf(Db, n))
          /\ students[n].paid_amount > 0

-----------------------------------------------------------------------------
(* C2 *)

\* the writes of a record_payment transaction that meet a storage error
WriteFaults == {"insert", "update", "commit"}

\* the outcome shows the new row and the increased paid_amount
BothApplied(out, request) ==
    /\ DOMAIN out.db.payments = DOMAIN payments \cup {lastPaymentId + 1}
    /\ \A p \in DOMAIN payments : out.db.payments[p] = payments[p]
    /\ out.db.payments[lastPaymentId + 1] = request
    /\ DOMAIN out.db.students = DOMAIN students
    /\ \A n \in DOMAIN students :
          out.db.students[n].paid_amount =
              students[n].paid_amount
                  + (IF n = request.student_id THEN request.amount ELSE 0)

\* the outcome shows neither
NeitherApplied(out) ==
    /\ out.db.payments = payments
    /\ DOMAIN out.db.students = DOMAIN students
    /\ \A n \in DOMAIN students :
          out.db.students[n].paid_amount = students[n].paid_amount

\* C2: record_payment's insert of the payment row and its increase of
\* paid_amount are one atomic step: afterwards both are visible or neither
\* is, and when either write (or the commit) fails neither is visible, the
\* tables are as before and the operation returns an error.
C2_RecordPaymentIsAtomic ==
    \A request \in AcceptedRequests : \A fault \in WriteFaults \cup {"none"} :
        Bind(record_payment(Db, lastPaymentId, settings, today, request, fault),
             LAMBDA out :
                /\ BothApplied(out, request) \/ NeitherApplied(out)
                /\ (fault \in WriteFaults /\ request.student_id \in DOMAIN students)
                       => /\ out.status = "DatabaseError"
                          /\ out.db = Db
                          /\ out.seq = lastPaymentId)

\* the second write of a record_payment failed for an existing student
C2_Witness ==
    /\ result.op = "record_payment"
    /\ result.status = "DatabaseError"
    /\ result.detail = "update"
    /\ students # << >>

-----------------------------------------------------------------------------
(* C3 *)

\* C3: in every reachable state each student's stored next_due_date and
\* payment_status equal what calculate_next_due_date and
\* calculate_payment_status return for the student's persisted fields, its
\* payment history, the current PlanConfig and today.
C3_CacheAlwaysFresh ==
    \A n \in DOMAIN students : CacheIsFresh(Db, settings, today, n)

-----------------------------------------------------------------------------
(* C4 *)

\* C4: for every population of students and the same today and
\* reminder_days, update_all_payment_statuses and
\* update_all_payment_statuses_batch leave every student with the same
\* payment_status.
C4_RecomputersAgree ==
    Bind(update_all_payment_statuses(Db, lastPaymentId, settings, today, {}),
         LAMBDA by_row :
    Bind(update_all_payment_statuses_batch(Db, lastPaymentId, settings, today),
         LAMBDA by_batch :
        \A n \in DOMAIN students :
            by_row.db.students[n].payment_status
                = by_batch.db.students[n].payment_status))

-----------------------------------------------------------------------------
(* C5 *)

\* C5: after a successful record_payment the student's paid_amount is the
\* increased one and the stored next_due_date and payment_status are the
\* calculators' results for it and for the most recent payment date among
\* the student's payments, the new one included.
C5_RecordPaymentRefreshesCache ==
    (result.op = "record_payment" /\ result.status = "Ok")
        => Bind(payments[Unwrap(result.val).i32], LAMBDA row :
               /\ students[row.student_id].paid_amount
                      = Unwrap(result.read.paid_amount) + row.amount
               /\ CacheIsFresh(Db, settings, today, row.student_id))

-----------------------------------------------------------------------------
(* C6 *)

\* the payment row a successful delete_payment removed was, by the calendar,
\* the most recent payment of its student
DeletedMostRecent ==
    /\ result.op = "delete_payment"
    /\ result.status = "Ok"
    /\ result.val = Some(Bool(TRUE))
    /\ Bind(Unwrap(result.read.transaction), LAMBDA transaction :
          \A p \in PaymentsOf(Db, transaction.student_id) :
              PaymentDay(payments[p]) <= PaymentDay(transaction))

\* C6: after delete_payment removed a student's most recent payment, the
\* stored next_due_date is the calculator's result for the last remaining
\* payment date, or for the enrollment date when no payment remains.
C6_DeleteRecomputesFromRemaining ==
    DeletedMostRecent
        => Bind(Unwrap(result.read.transaction).student_id, LAMBDA n :
               Ok(students[n].next_due_date) = ExpectedDueDate(Db, settings, n))

-----------------------------------------------------------------------------
(* C7 *)

\* max(0, paid_amount - amount)
FlooredDifference(paid_amount, amount) ==
    IF paid_amount >= amount THEN paid_amount - amount ELSE 0

\* the outcome shows the row gone and the aggregate reduced, floored at zero
DeleteBothApplied(out, payment_id) ==
    /\ DOMAIN out.db.payments = DOMAIN payments \ {payment_id}
    /\ \A p \in DOMAIN out.db.payments : out.db.payments[p] = payments[p]
    /\ DOMAIN out.db.students = DOMAIN students
    /\ \A n \in DOMAIN students :
          /\ out.db.students[n].paid_amount >= 0
          /\ out.db.students[n].paid_amount =
                IF n = payments[payment_id].student_id
                THEN FlooredDifference(students[n].paid_amount,
                                       payments[payment_id].amount)
                ELSE students[n].paid_amount

\* C7: delete_payment of an existing payment removes the row and sets
\* paid_amount to max(0, paid_amount - amount), which is not negative for any
\* stored paid_amount, also one below the deleted amount; the row deletion and
\* the aggregate update are both applied or, with an error, both not applied.
C7_DeletePaymentIsAtomicAndFloored ==
    \A payment_id \in DOMAIN payments : \A fault \in DeleteFaults :
        Bind(delete_payment(Db, lastPaymentId, settings, today, payment_id, fault),
             LAMBDA out :
                IF fault \in {"delete", "update", "commit"}
                THEN /\ NeitherApplied(out)
                     /\ out.db = Db
                     /\ out.status = "DatabaseError"
                ELSE DeleteBothApplied(out, payment_id))

\* a payment larger than the stored paid_amount was deleted and the student
\* is left with paid_amount 0
C7_Witness ==
    /\ result.op = "delete_payment"
    /\ result.val = Some(Bool(TRUE))
    /\ Unwrap(result.read.paid_amount) < Unwrap(result.read.transaction).amount
    /\ students[Unwrap(result.read.transaction).student_id].paid_amount = 0


-----------------------------------------------------------------------------
(* C8 *)

\* a text of the shape YYYY-MM-DD, ten characters with two-digit month and
\* day, that names a day of the calendar
IsIsoDate(s) ==
    /\ Len(s) = 10
    /\ \A i \in {1, 2, 3, 4, 6, 7, 9, 10} : s[i] \in 48..57
    /\ s[5] = 45
    /\ s[8] = 45
    /\ Bind((s[6] - 48) * 10 + (s[7] - 48), LAMBDA month :
       Bind((s[9] - 48) * 10 + (s[10] - 48), LAMBDA day :
            /\ month \in 1..12
            /\ day >= 1
            /\ day <= DaysInMonth((s[1] - 48) * 1000 + (s[2] - 48) * 100
                                    + (s[3] - 48) * 10 + (s[4] - 48), month)))

\* the data of a request is valid as the interface describes it
IsValidPaymentData(request) ==
    /\ request.student_id # 0
    /\ request.amount > 0
    /\ request.amount <= MAX_PAYMENT_AMOUNT
    /\ IsIsoDate(request.payment_date)

\* C8: record_payment with an empty student_id, an amount <= 0 or above
\* MAX_PAYMENT_AMOUNT, or a payment_date that is not a valid YYYY-MM-DD date
\* returns a validation error, inserts no row and changes no student field.
\* Stated for the requests that name no student or a student that exists
\* (for an absent student the lookup of C9 decides the error).
C8_InvalidDataIsRejectedUntouched ==
    \A request \in RecordPaymentRequests :
        (~IsValidPaymentData(request)
            /\ request.student_id \in DOMAIN students \cup {0})
            => Bind(record_payment(Db, lastPaymentId, settings, today,
                                   request, "none"),
                    LAMBDA out :
                        /\ out.status = "ValidationError"
                        /\ out.db = Db
                        /\ out.seq = lastPaymentId)

-----------------------------------------------------------------------------
(* C9 *)

\* C9: record_payment with valid data for a student id that does not exist
\* returns StudentNotFound, which is not the validation error, inserts no
\* row and changes no student.
C9_AbsentStudentIsNotFound ==
    \A request \in RecordPaymentRequests : \A fault \in RecordFaults :
        (IsValidPaymentData(request) /\ request.student_id \notin DOMAIN students)
            => Bind(record_payment(Db, lastPaymentId, settings, today,
                                   request, fault),
                    LAMBDA out :
                        /\ out.status = "StudentNotFound"
                        /\ out.status # ValidationError("").kind
                        /\ out.db = Db
                        /\ out.seq = lastPaymentId
                        /\ out.audit = {})

\* a record_payment for an absent student id ended with StudentNotFound on a
\* database that holds another student
C9_Witness ==
    /\ result.op = "record_payment"
    /\ result.status = "StudentNotFound"
    /\ students # << >>

-----------------------------------------------------------------------------
(* C10 *)

\* C10: delete_payment with a payment id that does not exist returns
\* Ok(false), not an error, and leaves every payment row and every student
\* field unchanged.
C10_AbsentPaymentIsFalse ==
    \A payment_id \in 1..(MaxPayments + 1) : \A fault \in DeleteFaults :
        payment_id \notin DOMAIN payments
            => Bind(delete_payment(Db, lastPaymentId, settings, today,
                                   payment_id, fault),
                    LAMBDA out :
                        /\ out.status = "Ok"
                        /\ out.val = Some(Bool(FALSE))
                        /\ out.db = Db
                        /\ out.seq = lastPaymentId
                        /\ out.audit = {})

\* a delete_payment of an absent id returned Ok(false) on a database that
\* holds a student and a payment row
C10_Witness ==
    /\ result.op = "delete_payment"
    /\ result.status = "Ok"
    /\ result.val = Some(Bool(FALSE))
    /\ students # << >>
    /\ payments # << >>

-----------------------------------------------------------------------------
(* What the specification says of the calculators *)

\* the day number a stored date text stands for
DayOfText(s) == DayNumber(Unwrap(ParseDate(s)))

\* the due dates and reminder windows a classification is tried with
TriedDueDates ==
    {None} \cup { Some(FormatDate(DateOfDay(today + n))) : n \in DueInDays }
TriedReminderDays == { config.reminder_days : config \in CalculatorConfigs }

\* the status of a one-time plan as the specification words it
OneTimeStatus(student, day) ==
    IF student.paid_amount >= student.plan_amount THEN "paid"
    ELSE IF day - DayOfText(student.enrollment_date) > 30 THEN "overdue"
    ELSE "pending"

\* C11: for a OneTime plan calculate_payment_status returns Paid when
\* paid_amount >= plan_amount whatever the dates, otherwise Overdue when more
\* than 30 days have elapsed since enrollment_date (exactly 30 is Pending),
\* otherwise Pending, whatever next_due_date and reminder_days are; and that
\* is the status a recompute stores.
C11_OneTimeStatus ==
    \A student_id \in DOMAIN students :
        students[student_id].payment_plan = "one-time" =>
            /\ \A next_due_date \in TriedDueDates, reminder_days \in TriedReminderDays :
                  calculate_payment_status("one-time",
                                           students[student_id].plan_amount,
                                           students[student_id].paid_amount,
                                           students[student_id].installment_count,
                                           next_due_date,
                                           students[student_id].enrollment_date,
                                           reminder_days, today)
                    = Ok(OneTimeStatus(students[student_id], today))
            /\ (result.op \in {"update_payment_statuses", "update_student_payment_status"}
                 /\ result.status = "Ok")
                  => students[student_id].payment_status
                       = OneTimeStatus(students[student_id], today)

\* a one-time student who has not paid in full, enrolled exactly 30 days ago,
\* is classified Pending by a recompute although the stored due date is past
C11_Witness ==
    /\ result.op = "update_payment_statuses"
    /\ 1 \in DOMAIN students
    /\ students[1].payment_plan = "one-time"
    /\ students[1].paid_amount < students[1].plan_amount
    /\ today - DayOfText(students[1].enrollment_date) = 30
    /\ students[1].next_due_date = Some(FormatDate(DateOfDay(today - 1)))
    /\ students[1].payment_status = "pending"

\* expected_total of a row: what calculate_expected_amount returns for it
ExpectedTotal(student, day) ==
    calculate_expected_amount(student.payment_plan, student.plan_amount,
                              student.enrollment_date, student.installment_count,
                              day).val

\* C12: for Monthly and Installment plans calculate_payment_status returns
\* Paid exactly when paid_amount >= expected_total (Installment: plan_amount
\* times installment_count, 3 when absent; Monthly: the amount expected to
\* date), whatever the due date is; and that is what a recompute stores.
C12_PaidIffExpectedTotalReached ==
    \A student_id \in DOMAIN students :
        students[student_id].payment_plan \in {"monthly", "installment"} =>
            /\ \A next_due_date \in TriedDueDates :
                  (calculate_payment_status(students[student_id].payment_plan,
                                            students[student_id].plan_amount,
                                            students[student_id].paid_amount,
                                            students[student_id].installment_count,
                                            next_due_date,
                                            students[student_id].enrollment_date,
                                            settings.reminder_days, today)
                     = Ok("paid"))
                  <=> (students[student_id].paid_amount
                         >= ExpectedTotal(students[student_id], today))
            /\ (result.op \in {"update_payment_statuses", "update_student_payment_status"}
                 /\ result.status = "Ok")
                  => ((students[student_id].payment_status = "paid")
                        <=> (students[student_id].paid_amount
                               >= ExpectedTotal(students[student_id], today)))

\* the status the specification gives a due date that is days_until_due away
ReminderWindowStatus(days_until_due, reminder_days) ==
    IF days_until_due < 0 THEN "overdue"
    ELSE IF days_until_due <= reminder_days THEN "due_soon"
    ELSE "pending"

\* a Monthly or Installment row that has paid less than its expected total
OwesOnRecurringPlan(student, day) ==
    /\ student.payment_plan \in {"monthly", "installment"}
    /\ student.paid_amount < ExpectedTotal(student, day)

\* C13: for a Monthly or Installment student who has paid less than the
\* expected total, with days_until_due = next_due_date - today, the status is
\* Overdue when days_until_due < 0, DueSoon when 0 <= days_until_due <=
\* reminder_days (both bounds included) and Pending when days_until_due >
\* reminder_days; a recompute stores that status for the stored due date.
C13_ReminderWindow ==
    \A student_id \in DOMAIN students :
        OwesOnRecurringPlan(students[student_id], today) =>
            /\ \A n \in DueInDays, reminder_days \in TriedReminderDays :
                  calculate_payment_status(students[student_id].payment_plan,
                                           students[student_id].plan_amount,
                                           students[student_id].paid_amount,
                                           students[student_id].installment_count,
                                           Some(FormatDate(DateOfDay(today + n))),
                                           students[student_id].enrollment_date,
                                           reminder_days, today)
                    = Ok(ReminderWindowStatus(n, reminder_days))
            /\ (/\ result.op \in {"update_payment_statuses", "update_student_payment_status"}
                /\ result.status = "Ok"
                /\ IsSome(students[student_id].next_due_date))
                  => students[student_id].payment_status
                       = ReminderWindowStatus(
                            DayOfText(Unwrap(students[student_id].next_due_date)) - today,
                            settings.reminder_days)

\* an installment student who owes and whose due date is exactly reminder_days
\* (7) away is stored as due_soon by a recompute
C13_Witness ==
    /\ result.op = "update_payment_statuses"
    /\ 1 \in DOMAIN students
    /\ students[1].payment_plan = "installment"
    /\ OwesOnRecurringPlan(students[1], today)
    /\ settings.reminder_days = 7
    /\ students[1].next_due_date = Some(FormatDate(DateOfDay(today + 7)))
    /\ students[1].payment_status = "due_soon"

\* months counted from year 0: the index that adding calendar months advances
MonthIndex(dt) == dt.y * 12 + (dt.m - 1)

\* advanced is ref moved on by n calendar months: the month index grows by n
\* and the day of the month is kept, a day the target month lacks being
\* either clamped to the month's last day or rolled to the first of the next
AdvancedByMonths(ref, advanced, n) ==
    LET target == MonthIndex(ref) + n
        last   == DaysInMonth(target \div 12, (target % 12) + 1)
    IN  \/ /\ MonthIndex(advanced) = target
           /\ advanced.d = IF ref.d <= last THEN ref.d ELSE last
        \/ /\ ref.d > last
           /\ MonthIndex(advanced) = target + 1
           /\ advanced.d = 1

\* the date a due-date text stands for
DateOfText(s) == Unwrap(ParseDate(s))

\* C14: for a Monthly plan calculate_next_due_date returns the enrollment
\* date when there is no prior payment, and otherwise the last payment date
\* advanced by exactly one calendar month, a December payment date giving
\* January of the next year; a recompute stores that date.
C14_MonthlyDueDate ==
    \A student_id \in DOMAIN students :
        students[student_id].payment_plan = "monthly" =>
            /\ calculate_next_due_date("monthly", students[student_id].enrollment_date,
                                       None, settings.installment_interval)
                 = Ok(Some(students[student_id].enrollment_date))
            /\ \A last \in LastPaymentDates :
                  AdvancedByMonths(
                      last,
                      DateOfText(Unwrap(
                          calculate_next_due_date("monthly",
                                                  students[student_id].enrollment_date,
                                                  Some(FormatDate(last)),
                                                  settings.installment_interval).val)),
                      1)
            /\ (result.op = "update_student_payment_status" /\ result.status = "Ok")
                  => IF PaymentsOf(Db, student_id) = {}
                     THEN students[student_id].next_due_date
                            = Some(students[student_id].enrollment_date)
                     ELSE AdvancedByMonths(
                              DateOfText(Unwrap(get_last_payment_date(Db, student_id))),
                              DateOfText(Unwrap(students[student_id].next_due_date)),
                              1)

\* C15: for an Installment plan calculate_next_due_date returns the
\* enrollment date when there is no prior payment, and otherwise the last
\* payment date advanced by installment_interval calendar months (1 to 12),
\* carrying into the next year when the month index passes December; a
\* recompute stores that date.
C15_InstallmentDueDate ==
    \A student_id \in DOMAIN students :
        students[student_id].payment_plan = "installment" =>
            /\ calculate_next_due_date("installment", students[student_id].enrollment_date,
                                       None, settings.installment_interval)
                 = Ok(Some(students[student_id].enrollment_date))
            /\ \A last \in LastPaymentDates :
                  AdvancedByMonths(
                      last,
                      DateOfText(Unwrap(
                          calculate_next_due_date("installment",
                                                  students[student_id].enrollment_date,
                                                  Some(FormatDate(last)),
                                                  settings.installment_interval).val)),
                      settings.installment_interval)
            /\ (result.op = "update_student_payment_status" /\ result.status = "Ok")
                  => IF PaymentsOf(Db, student_id) = {}
                     THEN students[student_id].next_due_date
                            = Some(students[student_id].enrollment_date)
                     ELSE AdvancedByMonths(
                              DateOfText(Unwrap(get_last_payment_date(Db, student_id))),
                              DateOfText(Unwrap(students[student_id].next_due_date)),
                              settings.installment_interval)

\* the payment dates record_payment accepts, as last_payment_date values
TriedLastPaymentDates ==
    {None} \cup { Some(t) : t \in PaddedDateTexts \cup UnpaddedDateTexts }

\* C16: calculate_next_due_date returns the enrollment date whenever the plan
\* is OneTime, with or without a prior payment date, so that a OneTime
\* student's stored next_due_date is the enrollment date before and after
\* every record_payment and delete_payment.
C16_OneTimeDueDateIsEnrollment ==
    \A student_id \in DOMAIN students :
        students[student_id].payment_plan = "one-time" =>
            /\ \A last_payment_date \in TriedLastPaymentDates :
                  calculate_next_due_date("one-time",
                                          students[student_id].enrollment_date,
                                          last_payment_date,
                                          settings.installment_interval)
                    = Ok(Some(students[student_id].enrollment_date))
            /\ students[student_id].next_due_date
                 = Some(students[student_id].enrollment_date)

\* a one-time student whose payment of 5 January was recorded, and whose due
\* date was recomputed from it, is still due on the enrollment date
C16_Witness ==
    /\ result.op = "record_payment"
    /\ result.status = "Ok"
    /\ IsSome(result.val)
    /\ Unwrap(result.val).i32 \in DOMAIN payments
    /\ payments[Unwrap(result.val).i32].student_id \in DOMAIN students
    /\ students[payments[Unwrap(result.val).i32].student_id].payment_plan = "one-time"
    /\ payments[Unwrap(result.val).i32].payment_date
         # students[payments[Unwrap(result.val).i32].student_id].enrollment_date
    /\ students[payments[Unwrap(result.val).i32].student_id].next_due_date
         = Some(students[payments[Unwrap(result.val).i32].student_id].enrollment_date)

-----------------------------------------------------------------------------
(* What the specification says of commands issued at the same time *)

\* the caller is inside its command: past the lock and not yet returned
InCommand(caller) == calls[caller].pc \notin {"idle", "lock"}

\* C17: record_payment and delete_payment requests issued at the same time,
\* on the same or on different students, run strictly one after another: at
\* most one caller is inside a command, what a command read as paid_amount is
\* still the stored value when it writes, and when no command is running every
\* paid_amount is the sum of the student's payment rows (no update is lost).
C17_CommandsAreSerialized ==
    /\ \A first, second \in Callers :
          (InCommand(first) /\ InCommand(second)) => first = second
    /\ \A caller \in Callers :
          calls[caller].pc = "update"
            => students[calls[caller].student_id].paid_amount
                 = calls[caller].paid_amount
    /\ (\A caller \in Callers : ~InCommand(caller))
          => \A student_id \in DOMAIN students :
                students[student_id].paid_amount
                  = SumAmounts(payments, PaymentsOf(Db, student_id))

\* a record_payment that has read paid_amount and inserted its row, about to
\* write the sum, while another record_payment for the same student waits for
\* the lock
C17_Witness ==
    \E first, second \in Callers :
        /\ calls[first].op = "record_payment"
        /\ calls[first].pc = "update"
        /\ calls[second].op = "record_payment"
        /\ calls[second].pc = "lock"
        /\ calls[second].student_id = calls[first].student_id
        /\ db_lock = first

-----------------------------------------------------------------------------
(* What the specification says of failures after the commit *)

\* the outcome leaves every student's cached fields as they are stored
CacheUntouched(out) ==
    \A n \in DOMAIN students :
        /\ out.db.students[n].next_due_date = students[n].next_due_date
        /\ out.db.students[n].payment_status = students[n].payment_status

\* C18: when the recompute step of record_payment or delete_payment fails
\* after the money transaction has committed, the operation returns the error
\* and the committed ledger change (row inserted or deleted, paid_amount
\* updated) is not undone; next_due_date and payment_status stay as they were.
C18_RecomputeFailureKeepsCommit ==
    /\ \A request \in AcceptedRequests :
          request.student_id \in DOMAIN students =>
              Bind(record_payment(Db, lastPaymentId, settings, today, request,
                                  "recompute"),
                   LAMBDA out :
                      /\ out.status = "DatabaseError"
                      /\ out.val = None
                      /\ BothApplied(out, request)
                      /\ CacheUntouched(out))
    /\ \A payment_id \in DOMAIN payments :
          Bind(delete_payment(Db, lastPaymentId, settings, today, payment_id,
                              "recompute"),
               LAMBDA out :
                  /\ out.status = "DatabaseError"
                  /\ out.val = None
                  /\ DeleteBothApplied(out, payment_id)
                  /\ CacheUntouched(out))

\* a record_payment whose recompute failed: the error was returned, the new
\* row and the increased paid_amount are stored, and the stored due date is
\* no longer what the calculator gives
C18_Witness ==
    /\ result.op = "record_payment"
    /\ result.status = "DatabaseError"
    /\ result.detail = "storage"
    /\ lastPaymentId \in DOMAIN payments
    /\ payments[lastPaymentId].student_id \in DOMAIN students
    /\ students[payments[lastPaymentId].student_id].paid_amount
         = Unwrap(result.read.paid_amount) + payments[lastPaymentId].amount
    /\ ~CacheIsFresh(Db, settings, today, payments[lastPaymentId].student_id)

-----------------------------------------------------------------------------
(* What the specification says of the row-by-row recomputer *)

\* C19: update_all_payment_statuses does not stop when recomputing one
\* student fails: every other student is recomputed, and it returns Ok with
\* successful_updates + number of failed_updates = number of students, each
\* failed student listed once with its error.
C19_RecomputerContinuesAfterFailure ==
    \A failing \in SUBSET DOMAIN students :
        Bind(update_all_payment_statuses(Db, lastPaymentId, settings, today, failing),
             LAMBDA out :
                /\ out.status = "Ok"
                /\ Unwrap(out.val).successful_updates
                     + Cardinality(Unwrap(out.val).failed_updates)
                     = Cardinality(DOMAIN students)
                /\ Unwrap(out.val).failed_updates
                     = { [student_id |-> n, error |-> "storage"] : n \in failing }
                /\ \A n \in DOMAIN students \ failing :
                      CacheIsFresh(out.db, settings, today, n)
                /\ \A n \in failing : out.db.students[n] = students[n])

\* the student visited first failed, and the student visited after it was
\* recomputed: its stored status is the calculators' a month after enrollment
C19_Witness ==
    /\ result.op = "update_all_payment_statuses"
    /\ result.status = "Ok"
    /\ Unwrap(result.val).failed_updates = { [student_id |-> 2, error |-> "storage"] }
    /\ Unwrap(result.val).successful_updates = 1
    /\ today > StartDay
    /\ CacheIsFresh(Db, settings, today, 1)
    /\ ~CacheIsFresh(Db, settings, today, 2)

-----------------------------------------------------------------------------
(* What the specification says of the audit trail *)

\* C20: a failure to write the audit entry (or to serialise the payment for
\* it) during record_payment or delete_payment does not fail the billing
\* operation: it returns success and the ledger change stays committed, the
\* tables being those of the same operation without the failure.
C20_AuditFailureDoesNotFailBilling ==
    /\ \A request \in AcceptedRequests :
          request.student_id \in DOMAIN students =>
              Bind(record_payment(Db, lastPaymentId, settings, today, request, "audit"),
                   LAMBDA out :
                      /\ out.status = "Ok"
                      /\ out.val = Some(I32(lastPaymentId + 1))
                      /\ out.audit = {}
                      /\ BothApplied(out, request)
                      /\ out.db = record_payment(Db, lastPaymentId, settings, today,
                                                 request, "none").db)
    /\ \A payment_id \in DOMAIN payments :
          Bind(delete_payment(Db, lastPaymentId, settings, today, payment_id, "audit"),
               LAMBDA out :
                  /\ out.status = "Ok"
                  /\ out.val = Some(Bool(TRUE))
                  /\ out.audit = {}
                  /\ DeleteBothApplied(out, payment_id)
                  /\ out.db = delete_payment(Db, lastPaymentId, settings, today,
                                             payment_id, "none").db)

\* a delete_payment that wrote no audit entry returned true, and the row it
\* read is gone
C20_Witness ==
    /\ result.op = "delete_payment"
    /\ result.val = Some(Bool(TRUE))
    /\ result.audit = {}
    /\ IsSome(result.read.transaction)
    /\ \A p \in DOMAIN payments : payments[p] # Unwrap(result.read.transaction)

-----------------------------------------------------------------------------
(* What the specification says of the global settings *)

\* the PlanConfig that the row of payment_settings stands for
AsPlanConfig(row) ==
    [installment_interval |-> row.installment_interval_months,
     reminder_days        |-> row.reminder_days]

\* the recompute of a student, run now, stores what the calculators give for
\* the PlanConfig cfg
NextRecomputeUses(cfg, student_id) ==
    Bind(update_student_payment_status(Db, settings, today, student_id, FALSE),
         LAMBDA recomputed :
            /\ recomputed.ok
            /\ CacheIsFresh(recomputed.val, cfg, today, student_id))

\* C21: every recompute reads the PlanConfig (installment interval, reminder
\* days) from the store at its start: right after the global payment settings
\* were changed, by update_payment_settings or by update_payment_plan_config,
\* the next recompute of a student uses the new values.
C21_RecomputeUsesChangedSettings ==
    \A student_id \in DOMAIN students :
        /\ result.op = "update_payment_plan_config"
              => NextRecomputeUses(settings, student_id)
        /\ (result.op = "update_payment_settings" /\ result.status = "Ok")
              => NextRecomputeUses(AsPlanConfig(payment_settings), student_id)

-----------------------------------------------------------------------------
(* What the specification says of repeated recomputes *)

\* C22: recompute is idempotent: update_student_payment_status run twice,
\* with no change of the student, its payments, the config or today in
\* between, leaves next_due_date and payment_status as they were after the
\* first run, whatever was stored before the first run; the calculators give
\* the same outputs for the same inputs.
C22_RecomputeIsIdempotent ==
    \A student_id \in DOMAIN students :
        /\ Bind(update_student_payment_status(Db, settings, today, student_id, FALSE),
                LAMBDA first :
                   first.ok =>
                       update_student_payment_status(first.val, settings, today,
                                                     student_id, FALSE) = first)
        /\ (result.op = "update_student_payment_status" /\ result.status = "Ok")
              => update_student_payment_status(Db, settings, today, student_id, FALSE)
                   = Ok(Db)

\* a monthly student with a payment on 2024-01-15 was recomputed, whatever due
\* date was stored before: the stored due date is 2024-02-15
C22_Witness ==
    /\ result.op = "update_student_payment_status"
    /\ result.status = "Ok"
    /\ 1 \in DOMAIN students
    /\ students[1].payment_plan = "monthly"
    /\ PaymentsOf(Db, 1) # {}
    /\ students[1].next_due_date = Some(FormatDate(Date(2024, 2, 15)))

-----------------------------------------------------------------------------
(* What the specification says of healing a stale cache *)

\* the next_due_date calculate_next_due_date gives for the persisted state
CalculatedDueDate(db, cfg, student_id) ==
    calculate_next_due_date(db.students[student_id].payment_plan,
                            db.students[student_id].enrollment_date,
                            get_last_payment_date(db, student_id),
                            cfg.installment_interval)

\* the payment_status calculate_payment_status gives for the persisted state
\* and the calculated due date
CalculatedStatus(db, cfg, day, student_id) ==
    Try(CalculatedDueDate(db, cfg, student_id), LAMBDA next_due_date :
        calculate_payment_status(db.students[student_id].payment_plan,
                                 db.students[student_id].plan_amount,
                                 db.students[student_id].paid_amount,
                                 db.students[student_id].installment_count,
                                 next_due_date,
                                 db.students[student_id].enrollment_date,
                                 cfg.reminder_days,
                                 day))

\* both cached fields of the student are what the calculators give
CalculatorsAgree(db, cfg, day, student_id) ==
    /\ Ok(db.students[student_id].next_due_date) = CalculatedDueDate(db, cfg, student_id)
    /\ Ok(db.students[student_id].payment_status)
           = CalculatedStatus(db, cfg, day, student_id)

\* the cached fields of the student are behind the persisted state, as a
\* recompute failure of record_payment or delete_payment leaves them
IsStale(student_id) ==
    /\ CalculatedStatus(Db, settings, today, student_id).ok
    /\ ~CalculatorsAgree(Db, settings, today, student_id)

\* a retry of update_student_payment_status brings both fields up to date
RetryHeals(student_id) ==
    Bind(update_student_payment_status(Db, settings, today, student_id, FALSE),
         LAMBDA retried :
            /\ retried.ok
            /\ CalculatorsAgree(retried.val, settings, today, student_id))

\* a run of the row-by-row recomputer brings both fields up to date
RowByRowHeals(student_id) ==
    Bind(update_all_payment_statuses(Db, lastPaymentId, settings, today, {}),
         LAMBDA by_row : CalculatorsAgree(by_row.db, settings, today, student_id))

\* a run of the bulk SQL recomputer brings both fields up to date
BulkHeals(student_id) ==
    Bind(update_all_payment_statuses_batch(Db, lastPaymentId, settings, today),
         LAMBDA by_batch : CalculatorsAgree(by_batch.db, settings, today, student_id))

\* C23: after a recompute failure has left a student's next_due_date and
\* payment_status stale, a retry of update_student_payment_status and a run
\* of either batch recomputer (row-by-row or bulk SQL) each bring both fields
\* to the values the calculators give for the persisted state.
C23_LaterRecomputeHeals ==
    \A student_id \in DOMAIN students :
        IsStale(student_id) =>
            /\ RetryHeals(student_id)
            /\ RowByRowHeals(student_id)
            /\ BulkHeals(student_id)

-----------------------------------------------------------------------------
(* What the specification says of a day the target month lacks *)

\* the number of days of the month n calendar months after the month of ref
TargetMonthDays(ref, n) ==
    DaysInMonth((MonthIndex(ref) + n) \div 12, ((MonthIndex(ref) + n) % 12) + 1)

\* the day of ref does not exist n calendar months later
DayOverflows(ref, n) == ref.d > TargetMonthDays(ref, n)

\* how advanced treats the missing day of ref moved on by n calendar months:
\* the last day of the target month, the first day after it, or neither
OverflowPolicy(ref, advanced, n) ==
    IF MonthIndex(advanced) = MonthIndex(ref) + n
       /\ advanced.d = TargetMonthDays(ref, n)
    THEN "clamp"
    ELSE IF MonthIndex(advanced) = MonthIndex(ref) + n + 1 /\ advanced.d = 1
    THEN "roll"
    ELSE "neither"

\* the date calculate_next_due_date returns for a plan after a payment on last
DueDateAfter(payment_plan, enrollment_date, last, installment_interval) ==
    DateOfText(Unwrap(calculate_next_due_date(payment_plan, enrollment_date,
                                              Some(FormatDate(last)),
                                              installment_interval).val))

\* C24: when the day of the last payment date does not exist in the target
\* month (Jan 31 + 1 month, Nov 30 + 3 months), calculate_next_due_date
\* returns the last day of the target month (clamp) or the first valid date
\* after it (roll), by the same one policy for Monthly and Installment plans.
C24_DayOverflowPolicy ==
    \A student_id \in DOMAIN students : \A last \in LastPaymentDates :
        /\ DayOverflows(last, 1) =>
              OverflowPolicy(last,
                             DueDateAfter("monthly",
                                          students[student_id].enrollment_date,
                                          last, settings.installment_interval),
                             1) \in {"clamp", "roll"}
        /\ DayOverflows(last, settings.installment_interval) =>
              OverflowPolicy(last,
                             DueDateAfter("installment",
                                          students[student_id].enrollment_date,
                                          last, settings.installment_interval),
                             settings.installment_interval) \in {"clamp", "roll"}
        /\ (DayOverflows(last, 1) /\ DayOverflows(last, settings.installment_interval)) =>
              OverflowPolicy(last,
                             DueDateAfter("monthly",
                                          students[student_id].enrollment_date,
                                          last, settings.installment_interval),
                             1)
                = OverflowPolicy(last,
                                 DueDateAfter("installment",
                                              students[student_id].enrollment_date,
                                              last, settings.installment_interval),
                                 settings.installment_interval)

-----------------------------------------------------------------------------
(* What the specification says of the rows a recompute writes *)

\* the step is a run of the row-by-row recomputer
RowByRowRuns == result'.op = "update_all_payment_statuses"

\* the recompute found the student's next_due_date and payment_status as
\* they were stored
AlreadyCurrent(student_id) ==
    /\ student_id \in DOMAIN students'
    /\ students'[student_id].next_due_date = students[student_id].next_due_date
    /\ students'[student_id].payment_status = students[student_id].payment_status

\* C25: the row-by-row recomputer writes a student's row only when the
\* recomputed next_due_date or payment_status differs from the stored value:
\* a student whose derived fields are already current is left completely
\* unchanged by the recompute, its updated_at included.
C25_WritesOnlyOnDifference ==
    [][RowByRowRuns =>
          \A student_id \in DOMAIN students :
              AlreadyCurrent(student_id) => student_id \notin written']_vars

-----------------------------------------------------------------------------
(* What the specification says of the payment rows *)

\* the payment rows the step inserted, and those it removed
RowsCreated == DOMAIN payments' \ DOMAIN payments
RowsRemoved == DOMAIN payments \ DOMAIN payments'

\* C26: a payment transaction row is created only by record_payment, is
\* never modified by any operation, and is removed only by delete_payment:
\* no student update, student delete, recompute or settings change changes
\* or removes a payment transaction row.
C26_PaymentRowsAreImmutable ==
    [][/\ RowsCreated # {} => result'.op = "record_payment"
       /\ RowsRemoved # {} => result'.op = "delete_payment"
       /\ \A p \in DOMAIN payments \cap DOMAIN payments' :
              payments'[p] = payments[p]]_vars

-----------------------------------------------------------------------------
(* What the specification says of a changed payment plan *)

\* the tables after the step
DbAfter == [students |-> students', payments |-> payments']

\* the step is an update_student that changed the plan type of the student
PlanChanged(student_id) ==
    /\ result'.op = "update_student"
    /\ result'.status = "Ok"
    /\ student_id \in DOMAIN students'
    /\ students'[student_id].payment_plan # students[student_id].payment_plan

\* C27: after update_student changes a student's plan type while the student
\* has recorded payments, the stored next_due_date is the due date of the new
\* plan computed from the student's most recent payment date (from the
\* enrollment date only when there is no payment), and the stored
\* payment_status is the classifier's result for that due date.
C27_PlanChangeRecomputesFromLastPayment ==
    [][\A student_id \in DOMAIN students :
          PlanChanged(student_id) =>
              CalculatorsAgree(DbAfter, settings, today, student_id)]_vars

-----------------------------------------------------------------------------
(* What the specification says of the audit entries of a committed change *)

\* the faults that leave the audit write itself working
AuditWorks == (RecordFaults \cup DeleteFaults) \ {"audit"}

\* the outcome holds a payment row the tables lacked: the insert is committed
InsertCommitted(out) == DOMAIN out.db.payments \ DOMAIN payments # {}

\* the outcome lacks the payment row: the delete is committed
DeleteCommitted(out, payment_id) == payment_id \notin DOMAIN out.db.payments

\* record_payment wrote exactly one audit entry for a committed insert
RecordAudited(request, fault) ==
    Bind(record_payment(Db, lastPaymentId, settings, today, request, fault),
         LAMBDA out :
            InsertCommitted(out) =>
                out.audit = {[action_type |-> "CREATE",
                              record_id   |-> lastPaymentId + 1]})

\* delete_payment wrote exactly one audit entry for a committed delete
DeleteAudited(payment_id, fault) ==
    Bind(delete_payment(Db, lastPaymentId, settings, today, payment_id, fault),
         LAMBDA out :
            DeleteCommitted(out, payment_id) =>
                out.audit = {[action_type |-> "DELETE", record_id |-> payment_id]})

\* C28: whenever record_payment or delete_payment has committed its ledger
\* change and the audit write itself works, exactly one audit entry for that
\* payment is written (a create entry for the new row, a delete entry for
\* the deleted row), also when the recompute step of the operation fails.
C28_CommittedChangeIsAudited ==
    /\ \A request \in AcceptedRequests : \A fault \in RecordFaults \cap AuditWorks :
          request.student_id \in DOMAIN students => RecordAudited(request, fault)
    /\ \A payment_id \in DOMAIN payments : \A fault \in DeleteFaults \cap AuditWorks :
          DeleteAudited(payment_id, fault)

-----------------------------------------------------------------------------
(* What the specification says of the order of payment date and due date *)

\* the installment intervals a due date is tried with
TriedIntervals == { config.installment_interval : config \in CalculatorConfigs }

\* the due date of the plan after a payment on p is a later day than p
DueAfterPayment(payment_plan, enrollment_date, p, installment_interval) ==
    DayNumber(DueDateAfter(payment_plan, enrollment_date, p, installment_interval))
        > DayNumber(p)

\* C29: for a Monthly or Installment plan with a prior payment on date p and
\* an installment interval of 1 to 12 months, calculate_next_due_date returns
\* a date strictly later than p, for every p including dates in December and
\* days 29 to 31 of a month.
C29_DueDateIsAfterLastPayment ==
    \A student_id \in DOMAIN students : \A p \in LastPaymentDates :
        \A installment_interval \in TriedIntervals :
            /\ DueAfterPayment("monthly", students[student_id].enrollment_date,
                               p, installment_interval)
            /\ DueAfterPayment("installment", students[student_id].enrollment_date,
                               p, installment_interval)

-----------------------------------------------------------------------------
(* What the specification says of the scanner lock *)

\* no mark_attendance is in progress and the scanner lock is held
LeftHeld == IsSome(scanner) /\ Unwrap(scanner).is_locked

\* the minimum scan interval has passed since the last scan
ScanIntervalPassed ==
    clock - ForcedScanner(scanner, clock).last_scan >= MIN_SCAN_INTERVAL

\* C30: every mark_attendance call that acquires the scanner lock releases
\* it before it returns, on success and on every error path (failed insert,
\* failed read-back, failed commit), so that the lock is never left held when
\* no attendance marking is in progress and a later acquire succeeds once
\* the minimum scan interval has passed.
C30_ScannerLockIsReleased ==
    /\ ~LeftHeld
    /\ ScanIntervalPassed => acquire_with_timeout(scanner, clock, SCAN_TIMEOUT).ok

=============================================================================
